---- MODULE Spec2Model ----
(***************************************************************************)
(* TEARC: the sharded timed-eviction adaptive-replacement cache of         *)
(* azoo.dev/utils/tearc and the KeyPool wrapper of                         *)
(* azoo.dev/utils/dvx/tearc that caches derived keys in it.                *)
(*                                                                         *)
(* Time is discrete, in units of MinTick; the durations of the code keep   *)
(* their order: the 50 ms slack is below one unit, MinTick < MaxTick <     *)
(* Minute, and the loader returns one evictIn below and one above Minute.  *)
(* A Get and the goroutines it starts take less than one unit: the clock   *)
(* advances between them, and never past a due tick of a reaper.           *)
(*                                                                         *)
(* Three specifications share the actions and differ in how the cache is   *)
(* used (the variable scenario): Spec runs one loadInfo over the whole     *)
(* time span, SpecKDF is the KeyPool wrapper asking for 32- and 64-byte    *)
(* keys, SpecGets has all callers loading at once.                         *)
(***************************************************************************)
EXTENDS Integers, Sequences, FiniteSets, TLC

(* ------------------------------ bounds --------------------------------- *)
Shards == 2
SlotsPerShard == 1
MaxHeap == 3
MaxRefresh == 1
MaxTime == 4
MaxArg == 3
MaxLen == 4
MaxTotps == 2
MaxCode == 1
MaxBytes == 3
MaxSegments == 4
MaxName == 2
MaxDigits == 9
MaxSlots == 2
MaxObjects == 2
MaxSessions == 4

(* --------------------------- configuration ----------------------------- *)
MinTick == 1
MaxTick == 2
Slack == 0
Minute == 4

Size == Shards * SlotsPerShard

(* A bucket built with the whole size instead of its share.                *)
BucketCapacityWhole == Size

(* NewCache: each bucket's ARC is built with size / shards slots.          *)
BucketCapacity == Size \div Shards

Buckets == 0 .. (Shards - 1)
Threads == {1, 2}
Keys == {"key1", "key2"}
Hints == {32, 64}
NoValue == <<>>
NoKey == ""

(* ------------------------ the wrapped KeyPool -------------------------- *)
(* KDF32 and KDF64 of the wrapped pool are pure functions of the root key  *)
(* and the keyRing; the derived key is represented by the pair of its      *)
(* length and the keyRing it was derived from.                             *)
SrcKDF(hint, keyRing) == <<hint, keyRing>>

(* wrapper.get: the value the loader produces for (key, loadInfo).         *)
LoaderValue(key, loadInfo) == SrcKDF(loadInfo, key)

(* The eviction delay the loader returns for a key (TestSimple's loader    *)
(* decides it by key; the wrapper returns config.AliveTime).               *)
LoaderEvictIn(key) == IF key = "key1" THEN 1 ELSE 5

(* ------------------------------ ARC ------------------------------------ *)
(* bucket.arc is a gcache ARC of capacity size/shards, built without       *)
(* expiration, loader or evicted callback.  It is modelled by its resident *)
(* keys and their values; which resident key a Set into a full cache       *)
(* replaces is the replacement policy's choice, any resident key here.     *)
ARCInit == [k \in Keys |-> NoValue]

ARCHas(c, k) == c[k] # NoValue
ARCKeys(c) == {k \in Keys : ARCHas(c, k)}
ARCLen(c) == Cardinality(ARCKeys(c))
ARCIsFull(c, size) == ARCLen(c) >= size

(* The keys ARC.Set(key, _) may replace: none unless key is new and the    *)
(* cache is full.                                                          *)
ARCVictims(c, size, key) ==
  IF ~ARCHas(c, key) /\ ARCIsFull(c, size) THEN ARCKeys(c) ELSE {NoKey}

(* ARC.Set(key, value), replacing victim.                                  *)
ARCSet(c, key, value, victim) ==
  [k \in Keys |-> IF k = key THEN value ELSE IF k = victim THEN NoValue ELSE c[k]]

(* ARC.Get(key): the value found; NoValue stands for KeyNotFoundError.     *)
ARCGet(c, key) == c[key]

(* ARC.Remove(key): whether the key was resident ...                       *)
ARCRemoveOk(c, key) == ARCHas(c, key)

(* ... and the cache after it.                                             *)
ARCRemove(c, key) == [c EXCEPT ![key] = NoValue]

(* --------------------------- eviction queue ---------------------------- *)
(* A heap item is [id, key, evictionTime]; id stands for the pointer, and  *)
(* the item's index field is its position in the queue (Swap and Push keep *)
(* it so).  Positions are 0-based as in container/heap.                    *)
At(s, i) == s[i + 1]
Less(s, i, j) == At(s, i).evictionTime < At(s, j).evictionTime
Swap(s, i, j) == [s EXCEPT ![i + 1] = s[j + 1], ![j + 1] = s[i + 1]]

RECURSIVE HeapUp(_, _)
HeapUp(s, j) ==
  LET i == IF j = 0 THEN 0 ELSE (j - 1) \div 2
  IN IF i = j \/ ~Less(s, j, i) THEN s ELSE HeapUp(Swap(s, i, j), i)

RECURSIVE HeapDown(_, _, _)
HeapDown(s, i, n) ==
  LET j1 == 2 * i + 1
      j == IF j1 + 1 < n /\ Less(s, j1 + 1, j1) THEN j1 + 1 ELSE j1
  IN IF j1 >= n THEN s
     ELSE IF ~Less(s, j, i) THEN s
     ELSE HeapDown(Swap(s, i, j), j, n)

HeapPush(s, item) == HeapUp(Append(s, item), Len(s))

(* heap.Pop: the popped item is the root; the rest is re-heaped.           *)
HeapPopItem(s) == s[1]
HeapPopRest(s) ==
  LET n == Len(s) - 1
  IN SubSeq(HeapDown(Swap(s, 0, n), 0, n), 1, n)

HeapFix(s, i) ==
  LET d == HeapDown(s, i, Len(s))
  IN IF d # s THEN d ELSE HeapUp(s, i)

IndexOf(s, id) == CHOOSE i \in 0 .. (Len(s) - 1) : At(s, i).id = id

(* A pointer no item of the queue has: the allocation of a heapItem.       *)
NewItemId(s) ==
  CHOOSE id \in 1 .. (Len(s) + 1) : \A i \in 1 .. Len(s) : s[i].id # id

(* ------------------------------- state --------------------------------- *)
VARIABLES
  scenario,  \* the use of the cache: the loadInfo values asked for (hints),
             \* the loads that may be in progress at once (loaders), and
             \* the time the use ends (until)
  now,       \* time.Now()
  jump,      \* tearc.jump: the bucket of each key (fixed by jumpSeed)
  arc,       \* bucket.arc
  eq,        \* bucket.eq
  eqPtrMap,  \* bucket.eqPtrMap: key -> id of its heap item, 0 is nil
  reaper,    \* per bucket: inReap (reap holds eqLock), wake (next tick)
  thr,       \* the callers of Cache.Get
  refresh,   \* the refresh goroutines started by Get hits, not yet run
  hist,      \* per resident key: what happened since its latest load
  ev,        \* what the latest step did, as its caller can observe it
  task,      \* per bucket: the reaper goroutine, "new" (go startReaper not
             \* yet run), "ticking" (in its select loop) or "stopped"
  closeOnce, \* bucket.closeOnce: "free", "running" (Do's function runs), "done"
  closer,    \* the callers of Cache.Close
  srcClosed, \* the wrapped KeyPool has been closed (wrapper.Close)
  crashed,   \* a goroutine has panicked
  nc,        \* a call of NewCache: its arguments and how far it has come
  rootBuf,   \* the root key buffer the caller handed to WrapDVXAsKeyPool
  rootKey,   \* dvxWrapper.rootKey: "buf" (the slice of rootBuf) or "nil"
  sealed,    \* the latest Protocol.Encrypt: its arguments and its result
  signed,    \* the latest Protocol.Sign: its arguments and its result
  totps,     \* the GenerateTOTP calls that succeeded: arguments and results
  accepted,  \* the VerifyTOTP before res, if it returned valid = true
  res,       \* the latest call of Protocol that takes an envelope or a key
  derived,   \* the calls of dvxWrapper.KDF32 and KDF64 made directly: the
             \* arguments, whether the pool was open, and what they returned
  call,      \* a call of a function of dvx or dvx/totp that reads no state:
             \* the function, its arguments and what it returned
  token,     \* the PKCS#11 module and its token: the context, the sessions
             \* that are open, the login state, the objects of the key label
  pool,      \* the hsm struct and the call of hsm.New or Close that made it
  kdfs       \* the calls of hsm.KDF32 and hsm.KDF64 and how far each has come

cacheVars == <<scenario, now, jump, arc, eq, eqPtrMap, reaper, thr, refresh, hist, ev>>

lifeVars == <<task, closeOnce, closer, srcClosed, crashed>>

(* The state outside the cache and its wrapper.                            *)
protoVars == <<rootBuf, rootKey, sealed, signed, totps, accepted, res, derived>>

(* The state of the HSM key pool and of its PKCS#11 module.                 *)
hsmVars == <<token, pool, kdfs>>

outside == <<nc, protoVars, call, hsmVars>>

vars == <<cacheVars, lifeVars, outside>>

IdleThread ==
  [pc |-> "idle", key |-> NoKey, hint |-> 0, value |-> NoValue,
   evictionTime |-> 0, wasResident |-> FALSE, loaderFailed |-> FALSE]

(* hist[k], kept while k is resident and reset when it leaves the ARC:     *)
(*   stored     the value the latest loadAndSet put into the ARC          *)
(*   loadDl     the deadline of the latest load (load time + evictIn)     *)
(*   loadDone   the latest load has pushed its heap item                  *)
(*   lastHit    the time of the latest Get hit since that load, -1 if none *)
NoHist == [stored |-> NoValue, loadDl |-> -1, loadDone |-> FALSE, lastHit |-> -1]

(* ev.kind is "none", or                                                   *)
(*   "ret"   Get returned: key, hint, value, err, and whether the lookup   *)
(*           found the key (wasResident), the loader was called and        *)
(*           failed, and the value the latest load had stored (expected)   *)
(*   "reap"  reap evicted a heap item: key, the keys it removed from the   *)
(*           ARC (gone) and those it started `go b.evicted(key)` for       *)
(*           (notified), and the value buffers it let go, as they were     *)
(*           (released)                                                    *)
(*   "purge" bucket.Close purged the ARC: the keys gone and the buffers    *)
(*           released                                                      *)
(*   "panic" a Get (of key) panicked                                       *)
NoEvent ==
  [kind |-> "none", key |-> NoKey, hint |-> 0, value |-> NoValue, err |-> FALSE,
   wasResident |-> FALSE, loaderCalled |-> FALSE, loaderFailed |-> FALSE,
   expected |-> NoValue, gone |-> {}, notified |-> {}, released |-> {}]

Closers == {1, 2}

(* A caller of Cache.Close: outside it ("idle"), or inside bucket b's      *)
(* Close, about to enter closeOnce.Do ("once"), sending on closeSig        *)
(* ("send"; sig is whether the channel it sends on was made) or about to   *)
(* take eqLock ("purge").                                                  *)
IdleCloser == [pc |-> "idle", b |-> 0, sig |-> FALSE]

(* No call of NewCache is being followed.                                  *)
NoNewCache ==
  [pc |-> "none", size |-> 0, shards |-> 0, loaderNil |-> FALSE,
   configNil |-> FALSE, minTick |-> 0, maxTick |-> 0, buckets |-> 0, reapers |-> 0]

(* A call that failed, and the byte string v a call returned.  A MAC tag   *)
(* is the record of its length, the function, its key and its message.     *)
Failed == [err |-> TRUE, len |-> 0, fn |-> "none", key |-> <<>>, msg |-> <<>>]

Bytes(v) == [err |-> FALSE, len |-> Len(v), fn |-> "bytes", key |-> <<>>, msg |-> v]

(* The string "", which no Encode returns.                                 *)
NoString == [version |-> "", typePrefix |-> "", data |-> <<>>]

(* No Encrypt has been made.  Of an Encrypt: its arguments, the nonce it   *)
(* drew and what it returned.                                              *)
NoSealed ==
  [done |-> FALSE, keyRing |-> <<>>, data |-> <<>>, nonce |-> 0,
   err |-> FALSE, ciphertext |-> NoString]

(* No Sign has been made.  Of a Sign: its arguments and what it returned.  *)
NoSigned ==
  [done |-> FALSE, keyRing |-> <<>>, message |-> <<>>, err |-> FALSE,
   signature |-> NoString]

(* No call of Protocol is remembered.  Of a call: op, the arguments        *)
(* (keyRing, id, accountID, code, message, signature), whether the pool    *)
(* was open when it was made, what it returned (err, data, valid, tag),    *)
(* the key it derived or was given, and for VerifyTOTP the code Generate   *)
(* computed.                                                               *)
NoRes ==
  [op |-> "none", keyRing |-> <<>>, id |-> NoString, accountID |-> <<>>, code |-> -1,
   message |-> <<>>, signature |-> NoString, tag |-> NoString,
   open |-> FALSE, err |-> FALSE, data |-> <<>>, valid |-> FALSE,
   key |-> Failed, expected |-> -1]

(* No call of a function is followed.                                      *)
NoCall == [fn |-> "none"]

(* No software pool and no Protocol is in use.                             *)
NoProtocol ==
  /\ rootBuf = <<>>
  /\ rootKey = "nil"
  /\ sealed = NoSealed
  /\ signed = NoSigned
  /\ totps = <<>>
  /\ accepted = NoRes
  /\ res = NoRes
  /\ derived = {}

(* The callers of KDF32 and KDF64 of the HSM pool.                         *)
Derivers == {"d1", "d2"}

IdleKdf == [pc |-> "idle", mech |-> "none", session |-> 0, err |-> "none", key |-> 0]

(* No PKCS#11 module is loaded and no HSM pool is in use.                  *)
NoToken == [ctx |-> "none"]

NoPool == [pc |-> "none"]

NoHSM ==
  /\ token = NoToken
  /\ pool = NoPool
  /\ kdfs = <<>>

InitOutside == nc = NoNewCache /\ NoProtocol /\ call = NoCall /\ NoHSM

InitBuckets ==
  /\ closeOnce = [b \in Buckets |-> "free"]
  /\ closer = [c \in Closers |-> IdleCloser]
  /\ srcClosed = FALSE
  /\ crashed = FALSE
  /\ now = 0
  /\ jump \in {f \in [Keys -> Buckets] : f["key1"] = 0}
  /\ arc = [b \in Buckets |-> ARCInit]
  /\ eq = [b \in Buckets |-> <<>>]
  /\ eqPtrMap = [b \in Buckets |-> [k \in Keys |-> 0]]
  /\ reaper = [b \in Buckets |-> [inReap |-> FALSE, wake |-> MinTick]]
  /\ thr = [t \in Threads |-> IdleThread]
  /\ refresh = {}
  /\ hist = [k \in Keys |-> NoHist]
  /\ ev = NoEvent

InitCache == InitBuckets /\ InitOutside

(* The reapers have all started: each is in its select loop.               *)
Started == task = [b \in Buckets |-> "ticking"]

(* The cache used with one loadInfo, over the whole time span; a load is   *)
(* concurrent with hits, refresh goroutines and the reapers.               *)
Init ==
  InitCache /\ Started
    /\ scenario = [hints |-> {32}, loaders |-> 1, until |-> MaxTime]

(* The cache under the KeyPool wrapper, which asks for 32- and 64-byte     *)
(* keys; until the first tick of the reapers.                              *)
InitKDF ==
  InitCache /\ Started
    /\ scenario = [hints |-> Hints, loaders |-> 1, until |-> MinTick]

(* The cache with loads by all callers at once; until the first tick of    *)
(* the reapers.                                                            *)
InitGets ==
  InitCache /\ Started
    /\ scenario = [hints |-> {32}, loaders |-> Cardinality(Threads),
                    until |-> MinTick]

(* No use of the cache.                                                    *)
NoScenario == [hints |-> {}, loaders |-> 0, until |-> 0]

(* NewCache has returned; the reaper goroutines are yet to be scheduled.   *)
NotStarted == task = [b \in Buckets |-> "new"]

(* The cache and Close, with one loader at a time, until the first tick.   *)
InitClose ==
  InitCache /\ NotStarted
    /\ scenario = [hints |-> {32}, loaders |-> 1, until |-> MinTick]

(* The KeyPool wrapper from New on, until the first tick.                  *)
InitWrapper ==
  InitCache /\ NotStarted
    /\ scenario = [hints |-> Hints, loaders |-> 1, until |-> MinTick]

Resident(k) == ARCHas(arc[jump[k]], k)

(* bucket.Close has released the bucket: b.arc, b.eq and b.eqPtrMap are    *)
(* nil.                                                                    *)
Closed(b) == closeOnce[b] = "done"

(* The keys an ARC operation removed from the resident lists.              *)
Displaced(before, after) ==
  {k \in Keys : ARCHas(before, k) /\ ~ARCHas(after, k)}

(* The loads of a bucket that have not pushed their heap item yet.         *)
InFlight(b) == {t \in Threads : thr[t].pc # "idle" /\ jump[thr[t].key] = b}

(* The callers inside loadAndSet.                                          *)
Loading == {t \in Threads : thr[t].pc # "idle"}

(* The deadline of the heap item id, -1 for nil.                           *)
Deadline(q, id) == IF id = 0 THEN -1 ELSE At(q, IndexOf(q, id)).evictionTime

(* ------------------------------ Cache.Get ------------------------------ *)
(* A Get that takes every lookup for a miss.                               *)
IsMissAlways(value) == TRUE

(* bucket.Get's test of the lookup: err is gcache.KeyNotFoundError.        *)
IsMiss(value) == value = NoValue

(* A loadAndSet that ignores the loader's error.                           *)
LoaderErrIgnored(loaderOk) == FALSE

(* loadAndSet's test of the loader's result: err != nil.                   *)
LoaderErr(loaderOk) == ~loaderOk

(* The evictionTime a Get hit hands to its refresh goroutine.              *)
HitEvictionTime(key, t) == t + Minute

(* bucket.Get, hit: the ARC lookup finds the key; Get returns the value    *)
(* and leaves the deadline refresh to a goroutine.                         *)
GetHit(t, key, hint) ==
  LET b == jump[key]
      value == ARCGet(arc[b], key)
  IN
  /\ thr[t].pc = "idle"
  /\ ~crashed /\ ~Closed(b)
  /\ hint \in scenario.hints
  /\ Cardinality(refresh) < MaxRefresh
  /\ ~IsMiss(value)
  /\ refresh' = refresh \cup
       {[key |-> key, at |-> now, evictionTime |-> HitEvictionTime(key, now)]}
  /\ hist' = [hist EXCEPT ![key].lastHit = now]
  /\ ev' = [NoEvent EXCEPT !.kind = "ret", !.key = key, !.hint = hint,
                           !.value = value, !.wasResident = ARCHas(arc[b], key),
                           !.expected = hist[key].stored]
  /\ UNCHANGED <<scenario, now, jump, arc, eq, eqPtrMap, reaper, thr>>
  /\ UNCHANGED <<lifeVars, outside>>

(* bucket.Get, miss, and loadAndSet up to the loader's return: the loader  *)
(* (wrapper.get) derives the key from the wrapped pool, or fails; on a     *)
(* failure Get returns the error.  Callers are interchangeable: the first  *)
(* idle one makes the call.                                                *)
GetMiss(t, key, hint, loaderOk) ==
  LET b == jump[key]
      inflight == [IdleThread EXCEPT !.pc = "set", !.key = key, !.hint = hint,
                     !.value = IF loaderOk THEN LoaderValue(key, hint) ELSE NoValue,
                     !.wasResident = ARCHas(arc[b], key),
                     !.loaderFailed = ~loaderOk]
  IN
  /\ thr[t].pc = "idle"
  /\ ~crashed /\ ~Closed(b)
  /\ \A u \in Threads : thr[u].pc = "idle" => t <= u
  /\ hint \in scenario.hints
  /\ Cardinality(Loading) < scenario.loaders
  /\ Len(eq[b]) + Cardinality(InFlight(b)) < MaxHeap
  /\ IsMiss(ARCGet(arc[b], key))
  /\ srcClosed => ~loaderOk
  /\ IF LoaderErr(loaderOk)
       THEN /\ ev' = [NoEvent EXCEPT !.kind = "ret", !.key = key, !.hint = hint,
                        !.err = TRUE, !.wasResident = inflight.wasResident,
                        !.loaderCalled = TRUE, !.loaderFailed = TRUE]
            /\ thr' = thr
       ELSE /\ ev' = NoEvent
            /\ thr' = [thr EXCEPT ![t] = inflight]
  /\ UNCHANGED <<scenario, now, jump, arc, eq, eqPtrMap, reaper, refresh, hist>>
  /\ UNCHANGED <<lifeVars, outside>>

(* loadAndSet: b.arc.Set(key, value), then evictionTime = now + evictIn.   *)
ArcSet(t, victim) ==
  LET key == thr[t].key
      b == jump[key]
      after == ARCSet(arc[b], key, thr[t].value, victim)
      gone == Displaced(arc[b], after)
  IN
  /\ thr[t].pc = "set"
  /\ ~crashed /\ ~Closed(b)
  /\ victim \in ARCVictims(arc[b], BucketCapacity, key)
  /\ arc' = [arc EXCEPT ![b] = after]
  /\ thr' = [thr EXCEPT ![t].pc = "push",
                        ![t].evictionTime = now + LoaderEvictIn(key)]
  /\ hist' = [k \in Keys |->
       IF k = key
         THEN [stored |-> thr[t].value, loadDl |-> now + LoaderEvictIn(key),
               loadDone |-> FALSE, lastHit |-> -1]
       ELSE IF k \in gone THEN NoHist
       ELSE hist[k]]
  /\ ev' = NoEvent
  /\ UNCHANGED <<scenario, now, jump, eq, eqPtrMap, reaper, refresh>>
  /\ UNCHANGED <<lifeVars, outside>>

(* loadAndSet: under eqLock, a new heap item is recorded in eqPtrMap and   *)
(* pushed; Get returns the loaded value.                                   *)
Push(t) ==
  LET key == thr[t].key
      b == jump[key]
      item == [id |-> NewItemId(eq[b]), key |-> key,
               evictionTime |-> thr[t].evictionTime]
  IN
  /\ thr[t].pc = "push"
  /\ ~crashed /\ ~Closed(b)
  /\ ~reaper[b].inReap
  /\ eqPtrMap' = [eqPtrMap EXCEPT ![b][key] = item.id]
  /\ eq' = [eq EXCEPT ![b] = HeapPush(@, item)]
  /\ thr' = [thr EXCEPT ![t] = IdleThread]
  /\ hist' = [hist EXCEPT ![key].loadDone = Resident(key)]
  /\ ev' = [NoEvent EXCEPT !.kind = "ret", !.key = key, !.hint = thr[t].hint,
                           !.value = thr[t].value,
                           !.wasResident = thr[t].wasResident,
                           !.loaderCalled = TRUE,
                           !.loaderFailed = thr[t].loaderFailed]
  /\ UNCHANGED <<scenario, now, jump, arc, reaper, refresh>>
  /\ UNCHANGED <<lifeVars, outside>>

(* The goroutine of a Get hit: under eqLock, the key's heap item gets the  *)
(* evictionTime the hit computed, and the heap is fixed at its index.      *)
RefreshedQueue(q, id, evictionTime) ==
  LET i == IndexOf(q, id)
  IN HeapFix([q EXCEPT ![i + 1].evictionTime = evictionTime], i)

Refresh(g) ==
  LET b == jump[g.key]
      id == eqPtrMap[b][g.key]
  IN
  /\ g \in refresh
  /\ ~crashed
  /\ ~reaper[b].inReap
  /\ refresh' = refresh \ {g}
  /\ eq' = [eq EXCEPT ![b] =
       IF id = 0 THEN @ ELSE RefreshedQueue(@, id, g.evictionTime)]
  /\ ev' = NoEvent
  /\ UNCHANGED <<scenario, now, jump, arc, eqPtrMap, reaper, thr, hist>>
  /\ UNCHANGED <<lifeVars, outside>>

(* ------------------------------ the reaper ----------------------------- *)
ClampTickNone(next) == next

(* The clamp of the ticker's next period to [MinTick, MaxTick].            *)
ClampTick(next) ==
  IF next < MinTick THEN MinTick ELSE IF next > MaxTick THEN MaxTick ELSE next

(* Whether reap evicts the popped item: now is not before evictionTime.    *)
ReapDue(item, t) == ~(t < item.evictionTime)

(* A reap that starts the EvictedFunc whatever arc.Remove returned.        *)
ReapNotifiesAlways(c, key) == TRUE

(* Whether reap starts the EvictedFunc goroutine: arc.Remove's result.     *)
ReapNotifies(c, key) == ARCRemoveOk(c, key)

(* reap returns: eqLock is released and the ticker is reset.               *)
ReapReturn(b, timeout) ==
  reaper' = [reaper EXCEPT ![b] = [inReap |-> FALSE, wake |-> now + ClampTick(timeout)]]

(* One turn of reap's loop, eqLock held from the first turn to the return. *)
(* The tick fires when the ticker's period has elapsed.  The goroutine     *)
(* `go b.evicted(item.key)` shares no state with the bucket: its start is  *)
(* the notification.                                                       *)
Reap(b) ==
  /\ task[b] = "ticking" /\ ~crashed
  /\ reaper[b].inReap \/ now >= reaper[b].wake
  /\ IF Len(eq[b]) = 0
       THEN /\ ReapReturn(b, MinTick)
            /\ ev' = NoEvent
            /\ UNCHANGED <<arc, eq, eqPtrMap, hist>>
       ELSE LET item == HeapPopItem(eq[b])
                rest == HeapPopRest(eq[b])
                gone == Displaced(arc[b], ARCRemove(arc[b], item.key))
            IN IF ~ReapDue(item, now)
                 THEN /\ eq' = [eq EXCEPT ![b] = HeapPush(rest, item)]
                      /\ ReapReturn(b, item.evictionTime - now + Slack)
                      /\ ev' = NoEvent
                      /\ UNCHANGED <<arc, eqPtrMap, hist>>
                 ELSE /\ eq' = [eq EXCEPT ![b] = rest]
                      /\ arc' = [arc EXCEPT ![b] = ARCRemove(@, item.key)]
                      /\ eqPtrMap' = [eqPtrMap EXCEPT ![b][item.key] = 0]
                      /\ reaper' = [reaper EXCEPT ![b].inReap = TRUE]
                      /\ hist' = [k \in Keys |-> IF k \in gone THEN NoHist ELSE hist[k]]
                      /\ ev' = [NoEvent EXCEPT !.kind = "reap", !.key = item.key,
                                  !.gone = gone,
                                  !.released = {ARCGet(arc[b], k) : k \in gone},
                                  !.notified = IF ReapNotifies(arc[b], item.key)
                                                 THEN {item.key} ELSE {}]
  /\ UNCHANGED <<scenario, now, jump, thr, refresh>>
  /\ UNCHANGED <<lifeVars, outside>>

(* Time passes between the Gets, but not past a tick of a reaper's ticker. *)
Tick ==
  /\ now < scenario.until /\ ~crashed
  /\ \A b \in Buckets :
       task[b] = "ticking" => ~reaper[b].inReap /\ reaper[b].wake > now
  /\ \A t \in Threads : thr[t].pc = "idle"
  /\ refresh = {}
  /\ now' = now + 1
  /\ ev' = NoEvent
  /\ UNCHANGED <<scenario, jump, arc, eq, eqPtrMap, reaper, thr, refresh, hist>>
  /\ UNCHANGED <<lifeVars, outside>>

(* ---------------------- startReaper, Close, panics --------------------- *)
(* bucket.startReaper, run by `go t.buckets[i].startReaper()`: closeSig is *)
(* made and the ticker of period MinTick created.                          *)
StartReaper(b) ==
  /\ task[b] = "new" /\ ~crashed
  /\ task' = [task EXCEPT ![b] = "ticking"]
  /\ reaper' = [reaper EXCEPT ![b] = [inReap |-> FALSE, wake |-> now + MinTick]]
  /\ ev' = NoEvent
  /\ UNCHANGED <<scenario, now, jump, arc, eq, eqPtrMap, thr, refresh, hist>>
  /\ UNCHANGED <<closeOnce, closer, srcClosed, crashed, outside>>

(* tearc.Close is called: its loop starts at the first bucket.             *)
CloseCall(c) ==
  /\ closer[c].pc = "idle" /\ ~crashed
  /\ \A u \in Closers : closer[u].pc = "idle" => c <= u
  /\ closer' = [closer EXCEPT ![c] = [pc |-> "once", b |-> 0, sig |-> FALSE]]
  /\ ev' = NoEvent
  /\ UNCHANGED <<scenario, now, jump, arc, eq, eqPtrMap, reaper, thr, refresh, hist>>
  /\ UNCHANGED <<task, closeOnce, srcClosed, crashed, outside>>

(* tearc.Close's loop after bucket b: the next bucket, or the return.      *)
CloseAdvance(b) ==
  IF b + 1 < Shards THEN [pc |-> "once", b |-> b + 1, sig |-> FALSE] ELSE IdleCloser

(* bucket.Close enters closeOnce.Do: a finished Once returns at once, a   *)
(* free one runs the function, which evaluates b.closeSig for its send; a  *)
(* running one makes the caller wait.                                      *)
CloseEnter(c) ==
  LET b == closer[c].b
  IN
  /\ closer[c].pc = "once" /\ ~crashed
  /\ closeOnce[b] # "running"
  /\ IF closeOnce[b] = "done"
       THEN /\ closer' = [closer EXCEPT ![c] = CloseAdvance(b)]
            /\ UNCHANGED closeOnce
       ELSE /\ closer' = [closer EXCEPT ![c] =
                          [pc |-> "send", b |-> b, sig |-> task[b] # "new"]]
            /\ closeOnce' = [closeOnce EXCEPT ![b] = "running"]
  /\ ev' = NoEvent
  /\ UNCHANGED <<scenario, now, jump, arc, eq, eqPtrMap, reaper, thr, refresh, hist>>
  /\ UNCHANGED <<task, srcClosed, crashed, outside>>

(* b.closeSig <- struct{}{} meets the reaper's select: the reaper stops    *)
(* its ticker and returns.  A send on the nil channel never completes.     *)
CloseSend(c) ==
  LET b == closer[c].b
  IN
  /\ closer[c].pc = "send" /\ ~crashed
  /\ closer[c].sig
  /\ task[b] = "ticking"
  /\ ~reaper[b].inReap
  /\ task' = [task EXCEPT ![b] = "stopped"]
  /\ closer' = [closer EXCEPT ![c].pc = "purge"]
  /\ ev' = NoEvent
  /\ UNCHANGED <<scenario, now, jump, arc, eq, eqPtrMap, reaper, thr, refresh, hist>>
  /\ UNCHANGED <<closeOnce, srcClosed, crashed, outside>>

(* bucket.Close under eqLock: arc.Purge, then arc, eq and eqPtrMap are     *)
(* set to nil; the Once is done and tearc.Close goes on.                   *)
ClosePurge(c) ==
  LET b == closer[c].b
      gone == ARCKeys(arc[b])
  IN
  /\ closer[c].pc = "purge" /\ ~crashed
  /\ ~reaper[b].inReap
  /\ arc' = [arc EXCEPT ![b] = ARCInit]
  /\ eq' = [eq EXCEPT ![b] = <<>>]
  /\ eqPtrMap' = [eqPtrMap EXCEPT ![b] = [k \in Keys |-> 0]]
  /\ closeOnce' = [closeOnce EXCEPT ![b] = "done"]
  /\ closer' = [closer EXCEPT ![c] = CloseAdvance(b)]
  /\ hist' = [k \in Keys |-> IF k \in gone THEN NoHist ELSE hist[k]]
  /\ ev' = [NoEvent EXCEPT !.kind = "purge", !.gone = gone,
                           !.released = {ARCGet(arc[b], k) : k \in gone}]
  /\ UNCHANGED <<scenario, now, jump, reaper, thr, refresh>>
  /\ UNCHANGED <<task, srcClosed, crashed, outside>>

(* bucket.Get on a closed bucket: b.arc is nil, b.arc.Get panics.          *)
GetClosed(t, key) ==
  /\ thr[t].pc = "idle" /\ ~crashed
  /\ Closed(jump[key])
  /\ crashed' = TRUE
  /\ ev' = [NoEvent EXCEPT !.kind = "panic", !.key = key]
  /\ UNCHANGED <<scenario, now, jump, arc, eq, eqPtrMap, reaper, thr, refresh, hist>>
  /\ UNCHANGED <<task, closeOnce, closer, srcClosed, outside>>

(* loadAndSet going on in a bucket closed meanwhile: b.arc.Set on the nil  *)
(* arc, or the assignment to an entry of the nil eqPtrMap, panics.         *)
LoadAndSetClosed(t) ==
  /\ thr[t].pc \in {"set", "push"} /\ ~crashed
  /\ Closed(jump[thr[t].key])
  /\ crashed' = TRUE
  /\ ev' = [NoEvent EXCEPT !.kind = "panic", !.key = thr[t].key]
  /\ UNCHANGED <<scenario, now, jump, arc, eq, eqPtrMap, reaper, thr, refresh, hist>>
  /\ UNCHANGED <<task, closeOnce, closer, srcClosed, outside>>

(* wrapper.Close: the wrapped pool is closed, and nothing else.            *)
WrapperClose ==
  /\ ~srcClosed /\ ~crashed
  /\ srcClosed' = TRUE
  /\ ev' = NoEvent
  /\ UNCHANGED <<scenario, now, jump, arc, eq, eqPtrMap, reaper, thr, refresh, hist>>
  /\ UNCHANGED <<task, closeOnce, closer, crashed, outside>>

Next ==
  \/ \E t \in Threads, key \in Keys, hint \in Hints : GetHit(t, key, hint)
  \/ \E t \in Threads, key \in Keys, hint \in Hints, ok \in BOOLEAN :
       GetMiss(t, key, hint, ok)
  \/ \E t \in Threads, victim \in Keys \cup {NoKey} : ArcSet(t, victim)
  \/ \E t \in Threads : Push(t)
  \/ \E g \in refresh : Refresh(g)
  \/ \E b \in Buckets : Reap(b)
  \/ Tick

Spec == Init /\ [][Next]_vars

SpecKDF == InitKDF /\ [][Next]_vars

SpecGets == InitGets /\ [][Next]_vars

(* ------------------------------- NewCache ------------------------------ *)
(* The arguments of a call of NewCache: sizes and tick durations from -1   *)
(* up, a loader and a config that may be nil.                              *)
NewCacheArgs ==
  [pc : {"args"}, size : -1 .. MaxArg, shards : -1 .. MaxArg,
   loaderNil : BOOLEAN, configNil : BOOLEAN,
   minTick : -1 .. MaxArg, maxTick : -1 .. MaxArg, buckets : {0}, reapers : {0}]

(* NewCache's validation: whether it returns an error.                     *)
NewCacheErr(a) ==
  \/ a.size <= 0
  \/ a.shards <= 0
  \/ a.size % a.shards # 0
  \/ a.loaderNil
  \/ a.configNil
  \/ a.minTick >= a.maxTick

(* NewCache: an error, or the buckets are made, one per shard, and a       *)
(* startReaper goroutine is started for each.                              *)
NewCacheCall ==
  /\ nc.pc = "args"
  /\ nc' = IF NewCacheErr(nc) THEN [nc EXCEPT !.pc = "err"]
           ELSE [nc EXCEPT !.pc = "built", !.buckets = nc.shards]
  /\ UNCHANGED <<cacheVars, lifeVars, protoVars, call, hsmVars>>

(* time.NewTicker(d) panics unless d is positive.                          *)
TickerPanics(d) == d <= 0

(* A startReaper goroutine of the new cache creates its ticker of period   *)
(* config.MinTick.                                                         *)
NewCacheReaper ==
  /\ nc.pc = "built"
  /\ nc.reapers < nc.buckets
  /\ nc' = IF TickerPanics(nc.minTick) THEN [nc EXCEPT !.pc = "crashed"]
           ELSE [nc EXCEPT !.reapers = @ + 1]
  /\ UNCHANGED <<cacheVars, lifeVars, protoVars, call, hsmVars>>

NextNew == NewCacheCall \/ NewCacheReaper

(* Calls of NewCache, over its arguments; no cache is in use.              *)
InitNew ==
  /\ InitBuckets /\ NotStarted /\ scenario = NoScenario
  /\ NoProtocol
  /\ call = NoCall
  /\ NoHSM
  /\ nc \in NewCacheArgs

SpecNew == InitNew /\ [][NextNew]_vars

(* The cache and its Close.  A panic ends the process: no action is        *)
(* enabled once crashed.                                                   *)
NextClose ==
  \/ Next
  \/ \E b \in Buckets : StartReaper(b)
  \/ \E c \in Closers : CloseCall(c)
  \/ \E c \in Closers : CloseEnter(c)
  \/ \E c \in Closers : CloseSend(c)
  \/ \E c \in Closers : ClosePurge(c)
  \/ \E t \in Threads, key \in Keys : GetClosed(t, key)
  \/ \E t \in Threads : LoadAndSetClosed(t)

SpecClose == InitClose /\ [][NextClose]_vars

(* The goroutines are scheduled: a reaper that was started runs, a waiting *)
(* Close goes on when it can, and the reaper's select takes a send that    *)
(* stays offered.                                                          *)
FairClose ==
  /\ \A b \in Buckets : WF_vars(StartReaper(b)) /\ WF_vars(Reap(b))
  /\ \A c \in Closers :
       WF_vars(CloseEnter(c)) /\ SF_vars(CloseSend(c)) /\ WF_vars(ClosePurge(c))

SpecCloseFair == SpecClose /\ FairClose

(* The cache under the KeyPool wrapper and the wrapper's Close.            *)
NextWrapper ==
  \/ Next
  \/ \E b \in Buckets : StartReaper(b)
  \/ WrapperClose

SpecWrapper == InitWrapper /\ [][NextWrapper]_vars

TypeOK ==
  /\ now \in 0 .. MaxTime
  /\ \A b \in Buckets : Len(eq[b]) <= MaxHeap
  /\ \A b \in Buckets, k \in Keys :
       eqPtrMap[b][k] # 0 =>
         \E i \in 1 .. Len(eq[b]) : eq[b][i].id = eqPtrMap[b][k] /\ eq[b][i].key = k

(* ------------------------ dvx: pool and Protocol ----------------------- *)
(* Strings are sequences of characters from a small alphabet: ':' and two  *)
(* characters of the base64 alphabet.  Byte strings are sequences of byte  *)
(* values.  Keys, tags and ciphertexts are symbolic: a MAC is the record   *)
(* of its length, its key and its message, and two of them are equal only  *)
(* when built alike (no collisions, no forgeries).                         *)
Chars == {":", "A", "Q"}

Strings == UNION {[1 .. n -> Chars] : n \in 0 .. MaxLen}

(* []byte(s): the characters' codes.                                       *)
CharByte(c) == CASE c = ":" -> 58 [] c = "A" -> 65 [] c = "Q" -> 81

StringBytes(str) == [i \in 1 .. Len(str) |-> CharByte(str[i])]

IndexRuneLast(str, c) ==
  IF \E i \in 1 .. Len(str) : str[i] = c
    THEN (CHOOSE i \in 1 .. Len(str) :
            str[i] = c /\ \A j \in (i + 1) .. Len(str) : str[j] # c) - 1
    ELSE -1

(* strings.IndexRune(str, c): the 0-based index of the first c, or -1.     *)
IndexRune(str, c) ==
  IF \E i \in 1 .. Len(str) : str[i] = c
    THEN (CHOOSE i \in 1 .. Len(str) :
            str[i] = c /\ \A j \in 1 .. (i - 1) : str[j] # c) - 1
    ELSE -1

(* The 6-bit value of a character of the standard base64 alphabet, -1 for  *)
(* any other character.                                                    *)
B64Value(c) == CASE c = "A" -> 0 [] c = "Q" -> 16 [] OTHER -> -1

(* base64.RawStdEncoding.DecodeString succeeds: every character is of the  *)
(* alphabet and the last quantum is not a single character.                *)
B64DecodeOk(str) ==
  /\ \A i \in 1 .. Len(str) : B64Value(str[i]) >= 0
  /\ Len(str) % 4 # 1

(* The bytes it decodes: three of each four characters, two of a last      *)
(* three, one of a last two; left-over bits are dropped.                   *)
RECURSIVE B64Decode(_)
B64Decode(str) ==
  LET v(i) == B64Value(str[i])
      b1 == v(1) * 4 + v(2) \div 16
      b2 == (v(2) % 16) * 16 + v(3) \div 4
      b3 == (v(3) % 4) * 64 + v(4)
  IN IF Len(str) < 2 THEN <<>>
     ELSE IF Len(str) = 2 THEN <<b1>>
     ELSE IF Len(str) = 3 THEN <<b1, b2>>
     ELSE <<b1, b2, b3>> \o B64Decode(SubSeq(str, 5, Len(str)))

(* Protocol.keyRingToBytes.                                                *)
keyRingToBytes(keyRing) ==
  LET idx == IndexRune(keyRing, ":")
      suffix == SubSeq(keyRing, idx + 2, Len(keyRing))
  IN IF idx = -1 THEN StringBytes(keyRing)
     ELSE IF ~B64DecodeOk(suffix) THEN StringBytes(keyRing)
     ELSE B64Decode(suffix)

(* blake2b.Size, the key length MAC256 and MAC512 demand; the lengths of   *)
(* their tags; chacha20poly1305.KeySize.                                   *)
MacKeySize == 64
Mac256Size == 32
Mac512Size == 64
KeySize == 32

(* DV1.MAC256 and DV1.MAC512: the key must be blake2b.Size bytes long.     *)
MAC256(key, message) ==
  IF key.len # MacKeySize THEN Failed
  ELSE [err |-> FALSE, len |-> Mac256Size, fn |-> "mac256", key |-> key, msg |-> message]

MAC512(key, message) ==
  IF key.len # MacKeySize THEN Failed
  ELSE [err |-> FALSE, len |-> Mac512Size, fn |-> "mac512", key |-> key, msg |-> message]

RootKeyValueKept ==
  [err |-> FALSE, len |-> Len(rootBuf), fn |-> "root", key |-> <<>>, msg |-> <<>>]

(* dvxWrapper.rootKey as the MAC's key: nil, or the slice of the caller's  *)
(* buffer (the one root of the pool, kept by its length).                  *)
RootKeyValue ==
  IF rootKey = "nil" THEN Bytes(<<>>)
  ELSE [err |-> FALSE, len |-> Len(rootBuf), fn |-> "root", key |-> <<>>, msg |-> <<>>]

(* dvxWrapper.KDF32 and KDF64.                                             *)
KDF32(keyRing) == MAC256(RootKeyValue, keyRing)
KDF64(keyRing) == MAC512(RootKeyValue, keyRing)

(* The root buffers handed to the pool: 64 bytes of key material, or a     *)
(* buffer of the wrong length.                                             *)
Roots == {[i \in 1 .. MacKeySize |-> 1], <<>>}

(* chacha20poly1305.NonceSizeX.                                            *)
NonceSizeX == 24

(* dvx.Version and the TypePrefixes.                                       *)
Version == "dv1"

Encrypted == "enc"
Signed == "sig"
Tagged == "tag"
TOTP == "totp"

(* dvx.Encode: "dv1.<typePrefix>.<base64url of data>", kept as its three   *)
(* parts (no part of it contains a '.'); the third part is kept as the     *)
(* bytes it encodes.                                                       *)
Encode(typePrefix, data) ==
  [version |-> Version, typePrefix |-> typePrefix, data |-> data]

(* dvx.Decode and dvx.DecodeExpect: err, or the version and the data.      *)
Decode(str) ==
  IF str.version # "dv1" THEN [err |-> TRUE, version |-> "", typePrefix |-> "", data |-> <<>>]
  ELSE IF str.typePrefix \notin {Encrypted, Signed, Tagged, TOTP}
    THEN [err |-> TRUE, version |-> "", typePrefix |-> "", data |-> <<>>]
  ELSE [err |-> FALSE, version |-> str.version, typePrefix |-> str.typePrefix,
        data |-> str.data]

DecodeExpect(str, expected) ==
  LET d == Decode(str)
  IN IF d.err THEN [err |-> TRUE, version |-> "", data |-> <<>>]
     ELSE IF d.typePrefix # expected THEN [err |-> TRUE, version |-> "", data |-> <<>>]
     ELSE [err |-> FALSE, version |-> d.version, data |-> d.data]

(* The plaintexts and the nonces rand.Reader yields.                       *)
Datas == {<<>>, <<1>>}

Nonces == {1, 2}

(* DV1.Encrypt: nonce || aead.Seal(nonce, data, Version || nonce) under    *)
(* key, kept as the record of what was sealed.                             *)
DV1Encrypt(key, data, nonce) ==
  IF key.len # KeySize THEN [err |-> TRUE, cipher |-> <<>>]
  ELSE [err |-> FALSE,
        cipher |-> [len |-> NonceSizeX + Len(data) + 16, nonce |-> nonce,
                    key |-> key, ad |-> <<Version, nonce>>, data |-> data]]

(* aead.Open authenticates: the key and the additional data are those of   *)
(* the Seal.                                                               *)
AeadOpens(key, ad, cipher) == key = cipher.key /\ ad = cipher.ad

(* DV1.Decrypt.                                                            *)
DV1Decrypt(key, cipher) ==
  IF key.len # KeySize THEN [err |-> TRUE, data |-> <<>>]
  ELSE IF cipher.len < NonceSizeX THEN [err |-> TRUE, data |-> <<>>]
  ELSE IF ~AeadOpens(key, <<Version, cipher.nonce>>, cipher) THEN [err |-> TRUE, data |-> <<>>]
  ELSE [err |-> FALSE, data |-> cipher.data]

DecryptKeyRingRaw(keyRing) == StringBytes(keyRing)

(* The key ring Protocol.Decrypt derives the key from.                     *)
DecryptKeyRing(keyRing) == keyRingToBytes(keyRing)

(* Protocol.Encrypt, over its arguments and the nonce drawn; one Encrypt   *)
(* is followed.                                                            *)
Encrypt ==
  /\ ~sealed.done
  /\ \E keyRing \in Strings, data \in Datas, nonce \in Nonces :
       LET key == KDF32(keyRingToBytes(keyRing))
           c == IF key.err THEN [err |-> TRUE, cipher |-> <<>>]
                ELSE DV1Encrypt(key, data, nonce)
       IN sealed' = [done |-> TRUE, keyRing |-> keyRing, data |-> data,
                     nonce |-> nonce, err |-> c.err,
                     ciphertext |-> IF c.err THEN NoString
                                    ELSE Encode(Encrypted, c.cipher)]
  /\ res' = NoRes
  /\ UNCHANGED <<cacheVars, lifeVars, nc, call, hsmVars, derived, rootBuf, rootKey, signed, totps, accepted>>

(* Protocol.Decrypt of the ciphertext Encrypt returned, over its keyRing;  *)
(* one Decrypt is followed.                                                *)
Decrypt ==
  /\ sealed.done /\ ~sealed.err
  /\ res = NoRes
  /\ \E keyRing \in Strings :
       LET e == DecodeExpect(sealed.ciphertext, Encrypted)
           key == KDF32(DecryptKeyRing(keyRing))
           d == IF e.err \/ key.err THEN [err |-> TRUE, data |-> <<>>]
                ELSE DV1Decrypt(key, e.data)
       IN res' = [NoRes EXCEPT !.op = "decrypt", !.keyRing = keyRing,
                               !.open = rootKey # "nil", !.key = key,
                               !.err = d.err, !.data = d.data]
  /\ UNCHANGED <<cacheVars, lifeVars, nc, call, hsmVars, derived, rootBuf, rootKey, sealed, signed, totps,
               accepted>>

(* dvxWrapper.Close: d.rootKey = nil.                                      *)
PoolClose ==
  /\ rootKey # "nil"
  /\ rootKey' = "nil"
  /\ UNCHANGED <<cacheVars, lifeVars, nc, call, hsmVars, derived, rootBuf, sealed, signed, totps, accepted,
               res>>

(* A software pool over a root buffer, and a Protocol over the pool; no    *)
(* cache is in use.                                                        *)
InitPool ==
  /\ InitBuckets /\ NotStarted /\ scenario = NoScenario
  /\ jump = [k \in Keys |-> 0]
  /\ nc = NoNewCache
  /\ call = NoCall
  /\ NoHSM
  /\ rootBuf \in Roots
  /\ rootKey = "buf"
  /\ sealed = NoSealed
  /\ signed = NoSigned
  /\ totps = <<>>
  /\ accepted = NoRes
  /\ res = NoRes
  /\ derived = {}

(* The key rings dvxWrapper.KDF32 and KDF64 are called with.               *)
PoolKeyRings == {<<>>, <<65>>, <<81>>}

(* dvxWrapper.KDF32 or KDF64, called on the pool itself.                   *)
PoolKDF ==
  /\ \E fn \in {"KDF32", "KDF64"}, keyRing \in PoolKeyRings :
       LET key == IF fn = "KDF32" THEN KDF32(keyRing) ELSE KDF64(keyRing)
       IN derived' = derived \cup {[fn |-> fn, keyRing |-> keyRing,
                                    open |-> rootKey # "nil",
                                    err |-> key.err,
                                    key |-> IF key.err THEN Bytes(<<>>) ELSE key]}
  /\ UNCHANGED <<cacheVars, lifeVars, nc, call, hsmVars, rootBuf, rootKey, sealed, signed, totps,
               accepted, res>>

NextSoftPool == PoolKDF \/ PoolClose

SpecSoftPool == InitPool /\ [][NextSoftPool]_vars

NextEncrypt == Encrypt \/ Decrypt \/ PoolClose

SpecEncrypt == InitPool /\ [][NextEncrypt]_vars

(* ---------------------------- dvx: envelope ---------------------------- *)
(* The envelope as text: a string is the sequence of its characters.       *)
(* base64.RawURLEncoding: the alphabet, and the value of a character (-1   *)
(* for a character outside it).                                            *)
B64UrlAlphabet ==
  <<
     "A", "B", "C", "D", "E", "F", "G", "H", "I", "J", "K", "L", "M", "N", "O", "P",
     "Q", "R", "S", "T", "U", "V", "W", "X", "Y", "Z", "a", "b", "c", "d", "e", "f",
     "g", "h", "i", "j", "k", "l", "m", "n", "o", "p", "q", "r", "s", "t", "u", "v",
     "w", "x", "y", "z", "0", "1", "2", "3", "4", "5", "6", "7", "8", "9", "-", "_"
  >>

B64UrlValue(c) ==
  IF \E i \in 1 .. 64 : B64UrlAlphabet[i] = c
    THEN (CHOOSE i \in 1 .. 64 : B64UrlAlphabet[i] = c) - 1
    ELSE -1

(* base64.RawURLEncoding.EncodeToString: four characters of each three     *)
(* bytes, three of a last two, two of a last one.                          *)
RECURSIVE B64UrlEncode(_)
B64UrlEncode(data) ==
  LET ch(v) == B64UrlAlphabet[v + 1]
      c1 == ch(data[1] \div 4)
      c2(next) == ch((data[1] % 4) * 16 + next \div 16)
      c3(next) == ch((data[2] % 16) * 4 + next \div 64)
      c4 == ch(data[3] % 64)
  IN IF Len(data) = 0 THEN <<>>
     ELSE IF Len(data) = 1 THEN <<c1, c2(0)>>
     ELSE IF Len(data) = 2 THEN <<c1, c2(data[2]), c3(0)>>
     ELSE <<c1, c2(data[2]), c3(data[3]), c4>> \o B64UrlEncode(SubSeq(data, 4, Len(data)))

(* The decoder skips the characters '\r' and '\n' wherever they are.       *)
StripNewlines(str) == SelectSeq(str, LAMBDA c : c # "\n" /\ c # "\r")

(* base64.RawURLEncoding.DecodeString returns an error: a character        *)
(* besides '\r' and '\n' is outside the alphabet ('=' is), or the last     *)
(* quantum is a single character.                                          *)
B64UrlDecodeErr(str) ==
  LET in == StripNewlines(str)
  IN \/ \E i \in 1 .. Len(in) : B64UrlValue(in[i]) < 0
     \/ Len(in) % 4 = 1

(* The bytes it returns; the bits left over in the last quantum are        *)
(* dropped, whatever they are.                                             *)
RECURSIVE B64UrlQuanta(_)
B64UrlQuanta(in) ==
  LET v(i) == B64UrlValue(in[i])
      b1 == v(1) * 4 + v(2) \div 16
      b2 == (v(2) % 16) * 16 + v(3) \div 4
      b3 == (v(3) % 4) * 64 + v(4)
  IN IF Len(in) < 2 THEN <<>>
     ELSE IF Len(in) = 2 THEN <<b1>>
     ELSE IF Len(in) = 3 THEN <<b1, b2>>
     ELSE <<b1, b2, b3>> \o B64UrlQuanta(SubSeq(in, 5, Len(in)))

B64UrlDecode(str) == B64UrlQuanta(StripNewlines(str))

(* The texts of Version and of the TypePrefixes, and of two names that are *)
(* neither.                                                                *)
Text(word) ==
  CASE word = "dv1" -> <<"d", "v", "1">>
    [] word = "dv2" -> <<"d", "v", "2">>
    [] word = "enc" -> <<"e", "n", "c">>
    [] word = "sig" -> <<"s", "i", "g">>
    [] word = "tag" -> <<"t", "a", "g">>
    [] word = "totp" -> <<"t", "o", "t", "p">>
    [] word = "xxx" -> <<"x", "x", "x">>

TypePrefixes == {Encrypted, Signed, Tagged, TOTP}

EncodeTextPrefixFirst(typePrefix, data) ==
  Text(typePrefix) \o <<".">> \o Text(Version) \o <<".">> \o B64UrlEncode(data)

(* dvx.Encode as text: fmt.Sprintf("%s.%s.%s", Version, typePrefix,        *)
(* base64url of data).                                                     *)
EncodeText(typePrefix, data) ==
  Text(Version) \o <<".">> \o Text(typePrefix) \o <<".">> \o B64UrlEncode(data)

(* strings.SplitN(str, ".", 3): the parts between the first two '.', the   *)
(* third part being the rest.                                              *)
SplitN3(str) ==
  LET dots == {i \in 1 .. Len(str) : str[i] = "."}
      d1 == CHOOSE i \in dots : \A j \in dots : i <= j
      d2 == CHOOSE i \in dots \ {d1} : \A j \in dots \ {d1} : i <= j
  IN IF dots = {} THEN <<str>>
     ELSE IF Cardinality(dots) = 1
       THEN <<SubSeq(str, 1, d1 - 1), SubSeq(str, d1 + 1, Len(str))>>
     ELSE <<SubSeq(str, 1, d1 - 1), SubSeq(str, d1 + 1, d2 - 1),
            SubSeq(str, d2 + 1, Len(str))>>

DecodeFailed == [err |-> TRUE, version |-> <<>>, typePrefix |-> <<>>, data |-> <<>>]

(* dvx.Decode as text.                                                     *)
DecodeText(str) ==
  LET parts == SplitN3(str)
  IN IF Len(parts) # 3 THEN DecodeFailed
     ELSE IF parts[1] # Text("dv1") THEN DecodeFailed
     ELSE IF \A t \in TypePrefixes : parts[2] # Text(t) THEN DecodeFailed
     ELSE IF B64UrlDecodeErr(parts[3]) THEN DecodeFailed
     ELSE [err |-> FALSE, version |-> parts[1], typePrefix |-> parts[2],
           data |-> B64UrlDecode(parts[3])]

(* dvx.DecodeExpect as text.                                               *)
DecodeExpectText(str, expected) ==
  LET d == DecodeText(str)
  IN IF d.err THEN [err |-> TRUE, version |-> <<>>, data |-> <<>>]
     ELSE IF d.typePrefix # Text(expected) THEN [err |-> TRUE, version |-> <<>>, data |-> <<>>]
     ELSE [err |-> FALSE, version |-> d.version, data |-> d.data]

(* The byte strings given to Encode.                                       *)
ByteValues == {0, 16, 255}

ByteStrings == UNION {[1 .. n -> ByteValues] : n \in 0 .. MaxBytes}

(* The strings given to Decode: up to MaxSegments of these segments,       *)
(* joined by '.'.                                                          *)
Segments ==
  {Text("dv1"), Text("dv2"), Text("enc"), Text("totp"), Text("xxx"),
   <<>>, <<"A">>, <<"_", "-", "A", "A">>, <<"A", "=">>, <<"!", "!", "!">>,
   <<"A", "\n", "A">>}

RECURSIVE Join(_)
Join(segs) ==
  IF Len(segs) = 1 THEN segs[1]
  ELSE segs[1] \o <<".">> \o Join(Tail(segs))

EnvelopeTexts == {Join(segs) : segs \in UNION {[1 .. n -> Segments] : n \in 1 .. MaxSegments}}

(* The calls of Encode, Decode and DecodeExpect, yet to be made.           *)
EnvelopeCalls ==
  [fn : {"Encode"}, pc : {"args"}, typePrefix : TypePrefixes, data : ByteStrings]
    \cup [fn : {"Decode"}, pc : {"args"}, str : EnvelopeTexts]
    \cup [fn : {"DecodeExpect"}, pc : {"args"},
          str : {Join(segs) : segs \in [1 .. 3 -> Segments]}, expected : TypePrefixes]

(* Encode(typePrefix, data), and Decode of what it returned.               *)
EncodeCall ==
  /\ call.fn = "Encode" /\ call.pc = "args"
  /\ call' = [fn |-> "Encode", pc |-> "done", typePrefix |-> call.typePrefix,
              data |-> call.data, out |-> EncodeText(call.typePrefix, call.data),
              back |-> DecodeText(EncodeText(call.typePrefix, call.data))]
  /\ UNCHANGED <<cacheVars, lifeVars, nc, protoVars, hsmVars>>

(* Decode(str).                                                            *)
DecodeCall ==
  /\ call.fn = "Decode" /\ call.pc = "args"
  /\ call' = [fn |-> "Decode", pc |-> "done", str |-> call.str,
              out |-> DecodeText(call.str)]
  /\ UNCHANGED <<cacheVars, lifeVars, nc, protoVars, hsmVars>>

(* DecodeExpect(str, expected).                                            *)
DecodeExpectCall ==
  /\ call.fn = "DecodeExpect" /\ call.pc = "args"
  /\ call' = [fn |-> "DecodeExpect", pc |-> "done", str |-> call.str,
              expected |-> call.expected,
              out |-> DecodeExpectText(call.str, call.expected)]
  /\ UNCHANGED <<cacheVars, lifeVars, nc, protoVars, hsmVars>>

(* No cache, no pool and no Protocol is in use: a function is called.      *)
InitCall ==
  /\ InitBuckets /\ NotStarted /\ scenario = NoScenario
  /\ jump = [k \in Keys |-> 0]
  /\ nc = NoNewCache
  /\ NoProtocol
  /\ NoHSM

NextEnvelope == EncodeCall \/ DecodeCall \/ DecodeExpectCall

InitEnvelope == InitCall /\ call \in EnvelopeCalls

SpecEnvelope == InitEnvelope /\ [][NextEnvelope]_vars

(* --------------------------- dvx: Sign, Verify ------------------------- *)
(* ed25519.SeedSize, PrivateKeySize, PublicKeySize and SignatureSize.      *)
SeedSize == 32
PrivateKeySize == 64
PublicKeySize == 32
SignatureSize == 64

(* ed25519.NewKeyFromSeed, PrivateKey.Public and ed25519.Sign, kept as     *)
(* what they are made of: the private key of a seed, the public key of     *)
(* the same seed, the signature of a message under a private key.          *)
NewKeyFromSeed(seed) ==
  [err |-> FALSE, len |-> PrivateKeySize, fn |-> "private", key |-> seed, msg |-> <<>>]

Public(privateKey) ==
  [err |-> FALSE, len |-> PublicKeySize, fn |-> "public", key |-> privateKey.key,
   msg |-> <<>>]

Ed25519Sign(privateKey, message) ==
  [err |-> FALSE, len |-> SignatureSize, fn |-> "signature", key |-> privateKey,
   msg |-> message]

Ed25519VerifyAnyMessage(publicKey, message, signature) ==
  /\ signature.fn = "signature"
  /\ Public(signature.key) = publicKey

(* ed25519.Verify: the signature is one made of this message under the     *)
(* private key of this public key.                                         *)
Ed25519Verify(publicKey, message, signature) ==
  /\ signature.fn = "signature"
  /\ Public(signature.key) = publicKey
  /\ signature.msg = message

DV1VerifyAnySignature(publicKey, message, signature) ==
  IF publicKey.len # PublicKeySize THEN [err |-> TRUE, valid |-> FALSE]
  ELSE [err |-> FALSE, valid |-> Ed25519Verify(publicKey, message, signature)]

(* DV1.Sign and DV1.Verify: [err, ...].                                    *)
DV1Sign(privateKey, message) ==
  IF privateKey.len # PrivateKeySize THEN Failed
  ELSE Ed25519Sign(privateKey, message)

DV1Verify(publicKey, message, signature) ==
  IF publicKey.len # PublicKeySize THEN [err |-> TRUE, valid |-> FALSE]
  ELSE IF signature.len # SignatureSize THEN [err |-> TRUE, valid |-> FALSE]
  ELSE [err |-> FALSE, valid |-> Ed25519Verify(publicKey, message, signature)]

(* Protocol.deriveSignKey; the seed KDF32 returns is SeedSize bytes long.  *)
deriveSignKey(keyRing, version) ==
  IF version # "dv1" THEN Bytes(<<>>)
  ELSE LET seed == KDF32(keyRing)
       IN IF seed.err THEN Failed ELSE NewKeyFromSeed(seed)

(* Protocol.verifyPK and Protocol.verify.                                  *)
verifyPK(publicKey, message, signature, version) ==
  IF version # "dv1" THEN [err |-> FALSE, valid |-> FALSE]
  ELSE DV1Verify(publicKey, message, signature)

verify(keyRing, message, signature, version) ==
  IF version # "dv1" THEN verifyPK(Bytes(<<>>), message, signature, version)
  ELSE LET privateKey == deriveSignKey(keyRing, "dv1")
       IN IF privateKey.err THEN [err |-> TRUE, valid |-> FALSE]
          ELSE verifyPK(Public(privateKey), message, signature, version)

(* The keyRings of the Sign and Verify calls; "A" and ":QQ" normalize to   *)
(* the same bytes.                                                         *)
SignKeyRings == {<<"A">>, <<"Q">>, <<":", "Q", "Q">>}

(* 64 bytes and 63 bytes that no Sign returned.                            *)
Forged == [err |-> FALSE, len |-> SignatureSize, fn |-> "bytes", key |-> <<>>, msg |-> <<>>]

Short ==
  [err |-> FALSE, len |-> SignatureSize - 1, fn |-> "bytes", key |-> <<>>, msg |-> <<>>]

(* The signature strings handed to Verify and VerifyPK: the one Sign       *)
(* returned, envelopes of 64 and of 63 other bytes, and an envelope of     *)
(* another type.                                                           *)
Signatures ==
  (IF signed.done /\ ~signed.err THEN {signed.signature} ELSE {})
    \cup {Encode(Signed, Forged), Encode(Signed, Short), Encode(Tagged, Forged)}

(* Protocol.Sign, over its arguments; one Sign is followed.                *)
Sign ==
  /\ ~signed.done
  /\ \E keyRing \in SignKeyRings, message \in Datas :
       LET key == deriveSignKey(keyRingToBytes(keyRing), Version)
           sig == IF key.err THEN Failed ELSE DV1Sign(key, message)
       IN signed' = [done |-> TRUE, keyRing |-> keyRing, message |-> message,
                     err |-> sig.err,
                     signature |-> IF sig.err THEN NoString ELSE Encode(Signed, sig)]
  /\ res' = NoRes
  /\ UNCHANGED <<cacheVars, lifeVars, nc, call, hsmVars, derived, rootBuf, rootKey, sealed, totps, accepted>>

(* Protocol.CreateSignKey, over its keyRing.                               *)
CreateSignKey ==
  /\ \E keyRing \in SignKeyRings :
       LET privateKey == deriveSignKey(keyRingToBytes(keyRing), Version)
       IN res' = [NoRes EXCEPT !.op = "CreateSignKey", !.keyRing = keyRing,
                               !.open = rootKey # "nil", !.err = privateKey.err,
                               !.key = IF privateKey.err THEN Failed
                                       ELSE Public(privateKey)]
  /\ UNCHANGED <<cacheVars, lifeVars, nc, call, hsmVars, derived, rootBuf, rootKey, sealed, signed, totps,
                 accepted>>

(* Protocol.Verify, over its arguments.                                    *)
Verify ==
  /\ \E keyRing \in SignKeyRings, message \in Datas, signature \in Signatures :
       LET d == DecodeExpect(signature, Signed)
           v == IF d.err THEN [err |-> TRUE, valid |-> FALSE]
                ELSE verify(keyRingToBytes(keyRing), message, d.data, d.version)
       IN res' = [NoRes EXCEPT !.op = "Verify", !.keyRing = keyRing,
                               !.message = message, !.signature = signature,
                               !.open = rootKey # "nil",
                               !.err = v.err, !.valid = v.valid]
  /\ UNCHANGED <<cacheVars, lifeVars, nc, call, hsmVars, derived, rootBuf, rootKey, sealed, signed, totps,
                 accepted>>

(* Protocol.VerifyPK with the public key CreateSignKey has just returned,  *)
(* over its other arguments.                                               *)
VerifyPK ==
  /\ res.op = "CreateSignKey" /\ ~res.err
  /\ \E message \in Datas, signature \in Signatures :
       LET d == DecodeExpect(signature, Signed)
           v == IF d.err THEN [err |-> TRUE, valid |-> FALSE]
                ELSE verifyPK(res.key, message, d.data, d.version)
       IN res' = [NoRes EXCEPT !.op = "VerifyPK", !.keyRing = res.keyRing,
                               !.key = res.key,
                               !.message = message, !.signature = signature,
                               !.open = rootKey # "nil",
                               !.err = v.err, !.valid = v.valid]
  /\ UNCHANGED <<cacheVars, lifeVars, nc, call, hsmVars, derived, rootBuf, rootKey, sealed, signed, totps,
                 accepted>>

NextSign == Sign \/ CreateSignKey \/ Verify \/ VerifyPK \/ PoolClose

SpecSign == InitPool /\ [][NextSign]_vars

(* ----------------------------- dvx: DV1 calls -------------------------- *)
(* The lengths of the keys, blobs and signatures handed to DV1, around the *)
(* lengths it asks for; a buffer of n bytes; a blob of n bytes that no     *)
(* Encrypt returned.                                                       *)
Sizes == {0, 23, 24, 31, 32, 33, 63, 64, 65}

Buffer(n) == [err |-> FALSE, len |-> n, fn |-> "bytes", key |-> <<>>, msg |-> <<>>]

Blob(n) == [len |-> n, nonce |-> 0, key |-> Buffer(0), ad |-> <<>>, data |-> <<>>]

(* The spare capacity of the caller's plaintext slice, cap(data) minus     *)
(* len(data), around the 16 bytes of the Poly1305 tag; the byte of the     *)
(* XChaCha20 key stream for the key and the nonce, over each plaintext     *)
(* byte.                                                                   *)
Spares == {0, 15, 16, 17}

Streams == {0, 255}

(* The exclusive or of two bytes.                                          *)
RECURSIVE Xor(_, _)
Xor(a, b) ==
  IF a = 0 /\ b = 0 THEN 0
  ELSE (((a % 2) + (b % 2)) % 2) + 2 * Xor(a \div 2, b \div 2)

(* The caller's slice data after DV1.Encrypt: aead.Seal appends to         *)
(* data[:0], so it writes the ciphertext over the plaintext when the       *)
(* capacity of data holds the ciphertext and its tag, and into a new array *)
(* otherwise.                                                              *)
DataAfterEncrypt(key, data, spare, stream) ==
  IF key.len # KeySize THEN data
  ELSE IF spare < 16 THEN data
  ELSE [i \in 1 .. Len(data) |-> Xor(data[i], stream)]

(* The calls of the DV1 primitive, yet to be made.  Decrypt is given blobs *)
(* of all sizes and what Encrypt returned under a 32-byte key; Verify is   *)
(* given signatures of all sizes and what Sign returned.                   *)
DV1Calls ==
  [fn : {"DV1.Encrypt"}, pc : {"args"}, key : {Buffer(n) : n \in Sizes},
   data : Datas, spare : Spares, nonce : Nonces, stream : Streams]
    \cup [fn : {"DV1.MAC256", "DV1.MAC512"}, pc : {"args"},
          key : {Buffer(n) : n \in Sizes}, message : Datas]
    \cup [fn : {"DV1.Decrypt"}, pc : {"args"}, key : {Buffer(n) : n \in Sizes},
          cipher : {Blob(n) : n \in Sizes}
                     \cup {DV1Encrypt(Buffer(KeySize), data, 1).cipher : data \in Datas}]
    \cup [fn : {"DV1.Verify"}, pc : {"args"}, publicKey : {Buffer(n) : n \in Sizes},
          message : Datas,
          signature : {Buffer(n) : n \in Sizes}
                        \cup {Ed25519Sign(NewKeyFromSeed(Buffer(SeedSize)), <<1>>)}]

(* DV1.Encrypt, and what it leaves in the caller's slice.                  *)
DV1EncryptCall ==
  /\ call.fn = "DV1.Encrypt" /\ call.pc = "args"
  /\ call' = [call EXCEPT !.pc = "done"]
                @@ [out |-> DV1Encrypt(call.key, call.data, call.nonce),
                    dataAfter |-> DataAfterEncrypt(call.key, call.data, call.spare,
                                                   call.stream)]
  /\ UNCHANGED <<cacheVars, lifeVars, nc, protoVars, hsmVars>>

DV1MACCall ==
  /\ call.fn \in {"DV1.MAC256", "DV1.MAC512"} /\ call.pc = "args"
  /\ call' = [call EXCEPT !.pc = "done"]
                @@ [out |-> IF call.fn = "DV1.MAC256" THEN MAC256(call.key, call.message)
                            ELSE MAC512(call.key, call.message)]
  /\ UNCHANGED <<cacheVars, lifeVars, nc, protoVars, hsmVars>>

DV1DecryptCall ==
  /\ call.fn = "DV1.Decrypt" /\ call.pc = "args"
  /\ call' = [call EXCEPT !.pc = "done"] @@ [out |-> DV1Decrypt(call.key, call.cipher)]
  /\ UNCHANGED <<cacheVars, lifeVars, nc, protoVars, hsmVars>>

DV1VerifyCall ==
  /\ call.fn = "DV1.Verify" /\ call.pc = "args"
  /\ call' = [call EXCEPT !.pc = "done"]
                @@ [out |-> DV1Verify(call.publicKey, call.message, call.signature)]
  /\ UNCHANGED <<cacheVars, lifeVars, nc, protoVars, hsmVars>>

InitDV1 == InitCall /\ call \in DV1Calls

NextDV1 == DV1EncryptCall \/ DV1MACCall \/ DV1DecryptCall \/ DV1VerifyCall

SpecDV1 == InitDV1 /\ [][NextDV1]_vars

(* ------------------------------ dvx: TOTP ------------------------------ *)
(* The n-th rawID rand.Reader yields, kept as its number: no two calls     *)
(* draw the same 32 bytes.                                                 *)
RawID(n) == <<n>>

(* The keyRing and the accountID the selectors are generated for, and      *)
(* those VerifyTOTP is called with; "A" and ":QQ" normalize to the same    *)
(* bytes.                                                                  *)
GenKeyRing == <<"A">>

GenAccountID == <<"A">>

TOTPKeyRings == {GenKeyRing, <<"Q">>, <<":", "Q", "Q">>}

AccountIDs == {GenAccountID, <<"Q">>}

(* The codes: the digits of a code leave fewer codes than secrets.         *)
Codes == 0 .. MaxCode

(* Protocol.deriveTOTPKey: [err, key].                                     *)
deriveTOTPKeyUnbound(keyRing, rawID, accountID, version) ==
  IF version # "dv1" THEN Bytes(<<>>)
  ELSE LET totpSK == KDF64(keyRing)
           intermediate == IF totpSK.err THEN Failed ELSE MAC512(totpSK, rawID)
       IN IF intermediate.err THEN Failed ELSE MAC256(intermediate, <<>>)

deriveTOTPKeySkipID(keyRing, rawID, accountID, version) ==
  IF version # "dv1" THEN Bytes(<<>>)
  ELSE LET totpSK == KDF64(keyRing)
       IN IF totpSK.err THEN Failed ELSE MAC256(totpSK, StringBytes(accountID))

deriveTOTPKey(keyRing, rawID, accountID, version) ==
  IF version # "dv1" THEN Bytes(<<>>)
  ELSE LET totpSK == KDF64(keyRing)
           intermediate == IF totpSK.err THEN Failed ELSE MAC512(totpSK, rawID)
       IN IF intermediate.err THEN Failed
          ELSE MAC256(intermediate, StringBytes(accountID))

(* The TOTP object GenerateTOTP and VerifyTOTP build around the secret.    *)
ProtocolTOTP(secret) ==
  [Secret |-> secret, Algorithm |-> "SHA256", Digits |-> 6, Period |-> 30]

(* TOTP.Generate and generateOTP return an error: the secret is empty, the *)
(* period is not 30, the algorithm is unknown or the digits are not 6 or 8.*)
GenerateErr(t) ==
  \/ t.Secret.len = 0
  \/ t.Period # 30
  \/ t.Algorithm \notin {"SHA1", "SHA256", "SHA512"}
  \/ t.Digits # 6 /\ t.Digits # 8

(* The codes totp.Generate has computed from secret in the calls still     *)
(* known, all within one period: generateOTP is a function of the secret   *)
(* and the counter.                                                        *)
KnownCodes(secret) ==
  {totps[i].code : i \in {j \in 1 .. Len(totps) : totps[j].key = secret}}
    \cup (IF accepted.op = "verify" /\ accepted.expected \in Codes /\ accepted.key = secret
            THEN {accepted.expected} ELSE {})
    \cup (IF res.op = "verify" /\ res.expected \in Codes /\ res.key = secret
            THEN {res.expected} ELSE {})

(* totp.Generate's code for secret: the one computed before, or for a      *)
(* secret not seen before any code (HMAC-SHA256, truncated).               *)
GenerateCodes(secret) ==
  IF KnownCodes(secret) # {} THEN KnownCodes(secret) ELSE Codes

(* Protocol.GenerateTOTP(GenKeyRing, issuer, accountName, GenAccountID),   *)
(* followed by the client's totp.Generate on the secret of the uri; a call *)
(* that returns an error leaves nothing behind.                            *)
GenerateTOTP ==
  /\ Len(totps) < MaxTotps
  /\ LET rawID == RawID(Len(totps) + 1)
         key == deriveTOTPKey(keyRingToBytes(GenKeyRing), rawID, GenAccountID, Version)
     IN /\ ~key.err
        /\ ~GenerateErr(ProtocolTOTP(key))
        /\ \E code \in GenerateCodes(key) :
             totps' = Append(totps, [keyRing |-> GenKeyRing, accountID |-> GenAccountID,
                                     id |-> Encode(TOTP, rawID), key |-> key,
                                     code |-> code])
  /\ UNCHANGED <<cacheVars, lifeVars, nc, call, hsmVars, derived, rootBuf, rootKey, sealed, signed, accepted,
               res>>

(* Protocol.VerifyTOTP, over its arguments; the id is one GenerateTOTP     *)
(* returned.  The calls are followed up to the one after the first that    *)
(* returned valid = true.                                                  *)
VerifyTOTP ==
  /\ totps # <<>>
  /\ accepted = NoRes
  /\ \E keyRing \in TOTPKeyRings, n \in 1 .. Len(totps), accountID \in AccountIDs,
        code \in Codes :
       LET d == DecodeExpect(totps[n].id, TOTP)
           key == IF d.err THEN Failed
                  ELSE deriveTOTPKey(keyRingToBytes(keyRing), d.data, accountID, d.version)
           query == [NoRes EXCEPT !.op = "verify", !.keyRing = keyRing, !.id = totps[n].id,
                                 !.accountID = accountID, !.code = code,
                                 !.open = rootKey # "nil", !.key = key]
       IN IF key.err THEN res' = [query EXCEPT !.err = TRUE]
          ELSE IF GenerateErr(ProtocolTOTP(key)) THEN res' = query
          ELSE \E expected \in GenerateCodes(key) :
                 res' = [query EXCEPT !.expected = expected, !.valid = (expected = code)]
  /\ accepted' = IF res.op = "verify" /\ res.valid THEN res ELSE accepted
  /\ UNCHANGED <<cacheVars, lifeVars, nc, call, hsmVars, derived, rootBuf, rootKey, sealed, signed, totps>>

(* The messages Protocol.MAC is called with: the raw bytes of the ids that *)
(* GenerateTOTP returns, and the empty message.                            *)
MACMessages == {RawID(n) : n \in 1 .. MaxTotps} \cup {<<>>}

(* Protocol.MAC, over its arguments.                                       *)
MAC ==
  /\ accepted = NoRes
  /\ \E keyRing \in TOTPKeyRings, message \in MACMessages :
       LET key == KDF64(keyRingToBytes(keyRing))
           buffer == IF key.err THEN Failed ELSE MAC512(key, message)
       IN res' = [NoRes EXCEPT !.op = "mac", !.keyRing = keyRing, !.message = message,
                               !.open = rootKey # "nil", !.key = key,
                               !.err = buffer.err,
                               !.tag = IF buffer.err THEN NoString
                                       ELSE Encode(Tagged, buffer)]
  /\ accepted' = IF res.op = "verify" /\ res.valid THEN res ELSE accepted
  /\ UNCHANGED <<cacheVars, lifeVars, nc, call, hsmVars, derived, rootBuf, rootKey, sealed, signed, totps>>

NextTOTP == GenerateTOTP \/ VerifyTOTP \/ MAC \/ PoolClose

SpecTOTP == InitPool /\ [][NextTOTP]_vars

(* ---------------------------- totp: the URI ---------------------------- *)
(* The words of the URI as sequences of characters.                        *)
Lit(word) ==
  CASE word = "otpauth" -> <<"o", "t", "p", "a", "u", "t", "h">>
    [] word = "http" -> <<"h", "t", "t", "p">>
    [] word = "totp" -> <<"t", "o", "t", "p">>
    [] word = "hotp" -> <<"h", "o", "t", "p">>
    [] word = "://" -> <<":", "/", "/">>
    [] word = "secret" -> <<"s", "e", "c", "r", "e", "t">>
    [] word = "issuer" -> <<"i", "s", "s", "u", "e", "r">>
    [] word = "%69ssuer" -> <<"%", "6", "9", "s", "s", "u", "e", "r">>
    [] word = "algorithm" -> <<"a", "l", "g", "o", "r", "i", "t", "h", "m">>
    [] word = "digits" -> <<"d", "i", "g", "i", "t", "s">>
    [] word = "period" -> <<"p", "e", "r", "i", "o", "d">>
    [] word = "foo" -> <<"f", "o", "o">>
    [] word = "SHA1" -> <<"S", "H", "A", "1">>
    [] word = "SHA256" -> <<"S", "H", "A", "2", "5", "6">>
    [] word = "SHA512" -> <<"S", "H", "A", "5", "1", "2">>
    [] word = "MD5" -> <<"M", "D", "5">>

uriScheme == Lit("otpauth")

uriHost == Lit("totp")

(* strings.Index(str, sub): the 0-based index of the first sub, or -1.     *)
Index(str, sub) ==
  LET at == {i \in 1 .. (Len(str) - Len(sub) + 1) : SubSeq(str, i, i + Len(sub) - 1) = sub}
  IN IF at = {} THEN -1 ELSE (CHOOSE i \in at : \A j \in at : i <= j) - 1

(* strings.Split(str, sep) for a separator of one character.               *)
RECURSIVE Split(_, _)
Split(str, sep) ==
  LET i == IndexRune(str, sep)
  IN IF i = -1 THEN <<str>>
     ELSE <<SubSeq(str, 1, i)>> \o Split(SubSeq(str, i + 2, Len(str)), sep)

(* strings.Cut(str, sep): what precedes and what follows the first sep.    *)
Cut(str, sep) ==
  LET i == IndexRune(str, sep)
  IN IF i = -1 THEN <<str, <<>>>>
     ELSE <<SubSeq(str, 1, i), SubSeq(str, i + 2, Len(str))>>

HexDigits ==
  {"0", "1", "2", "3", "4", "5", "6", "7", "8", "9",
   "A", "B", "C", "D", "E", "F", "a", "b", "c", "d", "e", "f"}

(* url.PathEscape: letters, digits and - _ . ~ $ & + = : @ are kept, every *)
(* other byte is written as % and two upper-case hex digits.               *)
EscapeByte(c) ==
  CASE c = " " -> <<"%", "2", "0">>
    [] c = "%" -> <<"%", "2", "5">>
    [] c = "/" -> <<"%", "2", "F">>
    [] c = "?" -> <<"%", "3", "F">>
    [] OTHER -> <<c>>

RECURSIVE PathEscape(_)
PathEscape(str) ==
  IF str = <<>> THEN <<>> ELSE EscapeByte(str[1]) \o PathEscape(Tail(str))

(* The byte two hex digits stand for; "other" is a byte that is none of    *)
(* the characters of the texts here.                                       *)
UnescapeByte(h1, h2) ==
  CASE <<h1, h2>> = <<"2", "0">> -> " "
    [] <<h1, h2>> = <<"2", "5">> -> "%"
    [] <<h1, h2>> = <<"2", "6">> -> "&"
    [] <<h1, h2>> \in {<<"2", "F">>, <<"2", "f">>} -> "/"
    [] <<h1, h2>> \in {<<"3", "A">>, <<"3", "a">>} -> ":"
    [] <<h1, h2>> \in {<<"3", "F">>, <<"3", "f">>} -> "?"
    [] <<h1, h2>> = <<"4", "1">> -> "A"
    [] <<h1, h2>> = <<"6", "9">> -> "i"
    [] OTHER -> "other"

(* url.unescape fails: a % that two hex digits do not follow.              *)
UnescapeErr(str) ==
  \E i \in 1 .. Len(str) :
    /\ str[i] = "%"
    /\ \/ i + 2 > Len(str)
       \/ str[i + 1] \notin HexDigits
       \/ str[i + 2] \notin HexDigits

(* url.unescape of a text it accepts; only in a query is + a space.        *)
RECURSIVE Unescape(_, _)
Unescape(str, query) ==
  IF str = <<>> THEN <<>>
  ELSE IF str[1] = "%"
    THEN <<UnescapeByte(str[2], str[3])>> \o Unescape(SubSeq(str, 4, Len(str)), query)
  ELSE IF str[1] = "+" /\ query THEN <<" ">> \o Unescape(Tail(str), query)
  ELSE <<str[1]>> \o Unescape(Tail(str), query)

DecimalDigits == <<"0", "1", "2", "3", "4", "5", "6", "7", "8", "9">>

(* strconv.Itoa.                                                           *)
RECURSIVE Itoa(_)
Itoa(n) ==
  IF n < 0 THEN <<"-">> \o Itoa(0 - n)
  ELSE IF n < 10 THEN <<DecimalDigits[n + 1]>>
  ELSE Itoa(n \div 10) \o <<DecimalDigits[(n % 10) + 1]>>

(* strconv.Atoi: an optional sign and at least one decimal digit.          *)
Unsigned(str) == IF str # <<>> /\ str[1] \in {"+", "-"} THEN Tail(str) ELSE str

AtoiErr(str) ==
  \/ Unsigned(str) = <<>>
  \/ \E i \in 1 .. Len(Unsigned(str)) :
       \A v \in 1 .. 10 : DecimalDigits[v] # Unsigned(str)[i]

RECURSIVE AtoiDigits(_)
AtoiDigits(str) ==
  IF str = <<>> THEN 0
  ELSE AtoiDigits(SubSeq(str, 1, Len(str) - 1)) * 10
         + (CHOOSE v \in 0 .. 9 : DecimalDigits[v + 1] = str[Len(str)])

Atoi(str) ==
  IF str[1] = "-" THEN 0 - AtoiDigits(Unsigned(str)) ELSE AtoiDigits(Unsigned(str))

(* base32.StdEncoding without padding.                                     *)
B32Alphabet ==
  <<"A", "B", "C", "D", "E", "F", "G", "H", "I", "J", "K", "L", "M", "N", "O", "P",
    "Q", "R", "S", "T", "U", "V", "W", "X", "Y", "Z", "2", "3", "4", "5", "6", "7">>

(* The i-th bit, from 0, of a sequence of units of `width` bits each; 0    *)
(* behind its end.                                                         *)
BitAt(units, width, i) ==
  IF i \div width >= Len(units) THEN 0
  ELSE (units[(i \div width) + 1] \div (2 ^ (width - 1 - (i % width)))) % 2

(* The number the n bits from the bit `first` on stand for.                *)
RECURSIVE BitsValue(_, _, _, _)
BitsValue(units, width, first, n) ==
  IF n = 0 THEN 0
  ELSE (2 * BitsValue(units, width, first, n - 1)) + BitAt(units, width, first + n - 1)

(* The unit of `to` bits at position k, from 0, of the bits of units of    *)
(* `from` bits.                                                            *)
Regroup(units, from, to, k) == BitsValue(units, from, to * k, to)

B32Encode(data) ==
  [k \in 1 .. (((8 * Len(data)) + 4) \div 5) |-> B32Alphabet[Regroup(data, 8, 5, k - 1) + 1]]

B32Value(c) ==
  IF \E v \in 1 .. 32 : B32Alphabet[v] = c
    THEN (CHOOSE v \in 1 .. 32 : B32Alphabet[v] = c) - 1
    ELSE -1

(* DecodeString of a text of 0, 2, 4, 5 or 7 characters after each group   *)
(* of 8: it fails on a character outside the alphabet.                     *)
B32DecodeErr(str) == \E i \in 1 .. Len(str) : B32Value(str[i]) = -1

B32Decode(str) ==
  LET values == [i \in 1 .. Len(str) |-> B32Value(str[i])]
  IN [m \in 1 .. ((5 * Len(str)) \div 8) |-> Regroup(values, 5, 8, m - 1)]

Lower ==
  {"a", "b", "c", "d", "e", "f", "g", "h", "i", "j", "k", "l", "m",
   "n", "o", "p", "q", "r", "s", "t", "u", "v", "w", "x", "y", "z"}

(* url.Parse of scheme://host/path?query, the scheme in lower case and the *)
(* host plain: the fragment is cut off, the scheme ends at the first       *)
(* colon, the query is what follows the first ?, the host ends at the next *)
(* slash and the path is unescaped.                                        *)
SchemeEnd(u) ==
  LET colon == IndexRune(u, ":")
  IN IF colon > 0 /\ \A i \in 1 .. colon : u[i] \in Lower THEN colon ELSE -1

URL(Scheme, Host, path, RawQuery) ==
  IF UnescapeErr(path)
    THEN [err |-> TRUE, Scheme |-> <<>>, Host |-> <<>>, Path |-> <<>>, RawQuery |-> <<>>]
    ELSE [err |-> FALSE, Scheme |-> Scheme, Host |-> Host,
          Path |-> Unescape(path, FALSE), RawQuery |-> RawQuery]

ParseAuthority(Scheme, authority, slash, RawQuery) ==
  IF slash = -1 THEN URL(Scheme, authority, <<>>, RawQuery)
  ELSE URL(Scheme, SubSeq(authority, 1, slash),
           SubSeq(authority, slash + 1, Len(authority)), RawQuery)

ParseRest(Scheme, rest, RawQuery) ==
  IF Len(rest) >= 2 /\ SubSeq(rest, 1, 2) = <<"/", "/">>
    THEN ParseAuthority(Scheme, SubSeq(rest, 3, Len(rest)),
                        IndexRune(SubSeq(rest, 3, Len(rest)), "/"), RawQuery)
    ELSE URL(Scheme, <<>>, rest, RawQuery)

ParseScheme(u, colon) ==
  IF colon = -1 THEN ParseRest(<<>>, Cut(u, "?")[1], Cut(u, "?")[2])
  ELSE ParseRest(SubSeq(u, 1, colon),
                 Cut(SubSeq(u, colon + 2, Len(u)), "?")[1],
                 Cut(SubSeq(u, colon + 2, Len(u)), "?")[2])

ParseURL(rawURL) == ParseScheme(Cut(rawURL, "#")[1], SchemeEnd(Cut(rawURL, "#")[1]))

(* u.Query(): the pairs of key and value, both query-unescaped; a pair     *)
(* that is empty, holds a semicolon or does not unescape is left out.      *)
QueryKept(pair) ==
  /\ pair # <<>>
  /\ IndexRune(pair, ";") = -1
  /\ ~UnescapeErr(Cut(pair, "=")[1])
  /\ ~UnescapeErr(Cut(pair, "=")[2])

QueryUnescaped(pairs) ==
  [i \in 1 .. Len(pairs) |->
     <<Unescape(Cut(pairs[i], "=")[1], TRUE), Unescape(Cut(pairs[i], "=")[2], TRUE)>>]

Query(RawQuery) == QueryUnescaped(SelectSeq(Split(RawQuery, "&"), QueryKept))

NoTOTP ==
  [err |-> TRUE, Secret |-> <<>>, Algorithm |-> <<>>, Digits |-> 0, Period |-> 0,
   Issuer |-> <<>>, AccountName |-> <<>>]

Algorithms == {Lit("SHA1"), Lit("SHA256"), Lit("SHA512")}

QueryKeys == {Lit("secret"), Lit("issuer"), Lit("algorithm"), Lit("digits"), Lit("period")}

(* The label: without a colon the account name, else issuer and account    *)
(* name, and an error unless the colon splits it in two.                   *)
LabelParts(label, labelSplit) ==
  IF IndexRune(label, ":") = -1
    THEN [err |-> FALSE, Issuer |-> <<>>, AccountName |-> label]
  ELSE IF Len(labelSplit) # 2 THEN [err |-> TRUE, Issuer |-> <<>>, AccountName |-> <<>>]
  ELSE [err |-> FALSE, Issuer |-> labelSplit[1], AccountName |-> labelSplit[2]]

(* case "issuer": the text behind the first issuer= of the raw query, up   *)
(* to the next &, does not path-unescape to the issuer of the label; no    *)
(* issuer= in the raw query is no error.                                   *)
IssuerRefused(raw, issuerStart, Issuer) ==
  /\ issuerStart # -1
  /\ (UnescapeErr(raw) \/ Unescape(raw, FALSE) # Issuer)

(* The body of the loop over the query returns an error for a key with the *)
(* given values.                                                           *)
Refused(key, values, RawQuery, issuerStart, Issuer) ==
  \/ Len(values) > 1
  \/ key = Lit("secret") /\ B32DecodeErr(values[1][2])
  \/ /\ key = Lit("issuer")
     /\ IssuerRefused(Cut(SubSeq(RawQuery, issuerStart + 8, Len(RawQuery)), "&")[1],
                      issuerStart, Issuer)
  \/ key = Lit("algorithm") /\ values[1][2] \notin Algorithms
  \/ key \in {Lit("digits"), Lit("period")} /\ AtoiErr(values[1][2])
  \/ key \notin QueryKeys

Values(query, key) == SelectSeq(query, LAMBDA pair : pair[1] = key)

Param(values, default) == IF values = <<>> THEN default ELSE values[1][2]

ParseQuery(u, label, query) ==
  IF \/ label.err
     \/ \E i \in 1 .. Len(query) :
          Refused(query[i][1], Values(query, query[i][1]), u.RawQuery,
                  Index(u.RawQuery, Lit("issuer") \o <<"=">>), label.Issuer)
     \/ Len(B32Decode(Param(Values(query, Lit("secret")), <<>>))) = 0
    THEN NoTOTP
    ELSE [err |-> FALSE,
          Secret |-> B32Decode(Param(Values(query, Lit("secret")), <<>>)),
          Algorithm |-> Param(Values(query, Lit("algorithm")), Lit("SHA1")),
          Digits |-> Atoi(Param(Values(query, Lit("digits")), <<"6">>)),
          Period |-> Atoi(Param(Values(query, Lit("period")), <<"3", "0">>)),
          Issuer |-> label.Issuer,
          AccountName |-> label.AccountName]

TrimSlash(path) == IF path # <<>> /\ path[1] = "/" THEN Tail(path) ELSE path

ParseParsed(u) ==
  IF u.err \/ u.Scheme # uriScheme \/ u.Host # uriHost THEN NoTOTP
  ELSE ParseQuery(u, LabelParts(TrimSlash(u.Path), Split(TrimSlash(u.Path), ":")),
                  Query(u.RawQuery))

(* ParseFromURI: [err, Secret, Algorithm, Digits, Period, Issuer,          *)
(* AccountName].  The keys of the query are visited in any order and the   *)
(* first error is returned, so it fails as soon as one key is refused.     *)
ParseFromURI(uri) == ParseParsed(ParseURL(uri))

(* t.URI().                                                                *)
URI(t) ==
  uriScheme \o Lit("://") \o uriHost \o <<"/">>
    \o PathEscape(t.Issuer) \o <<":">> \o PathEscape(t.AccountName)
    \o <<"?">> \o Lit("secret") \o <<"=">> \o B32Encode(t.Secret)
    \o <<"&">> \o Lit("issuer") \o <<"=">> \o PathEscape(t.Issuer)
    \o <<"&">> \o Lit("algorithm") \o <<"=">> \o t.Algorithm
    \o <<"&">> \o Lit("digits") \o <<"=">> \o Itoa(t.Digits)
    \o <<"&">> \o Lit("period") \o <<"=">> \o Itoa(t.Period)

(* The characters of issuers and account names, the names, the secrets and *)
(* the settings of the TOTP objects that are written as a URI.             *)
NameChars == {"a", " ", ":", "&", "%"}

Names == UNION {[1 .. n -> NameChars] : n \in 0 .. MaxName}

AccountNames == {<<>>} \cup {<<c>> : c \in NameChars}

URISecrets == {<<255>>, <<72, 101>>}

Settings ==
  {[Algorithm |-> Lit("SHA1"), Digits |-> 6, Period |-> 30],
   [Algorithm |-> Lit("SHA256"), Digits |-> 8, Period |-> 30],
   [Algorithm |-> Lit("SHA512"), Digits |-> 6, Period |-> 60]}

TOTPs ==
  {[Secret |-> secret, Algorithm |-> s.Algorithm, Digits |-> s.Digits,
    Period |-> s.Period, Issuer |-> issuer, AccountName |-> accountName] :
     secret \in URISecrets, s \in Settings, issuer \in Names, accountName \in AccountNames}

(* The URIs handed to ParseFromURI: a head, a label and a query of up to   *)
(* three pairs.                                                            *)
Heads ==
  {Lit("otpauth") \o Lit("://") \o Lit("totp") \o <<"/">>,
   Lit("http") \o Lit("://") \o Lit("totp") \o <<"/">>,
   Lit("otpauth") \o Lit("://") \o Lit("hotp") \o <<"/">>}

Labels == {<<"A", ":", "b">>, <<"b">>, <<"A", ":", "b", ":", "c">>}

SecretPairs == {<<>>, Lit("secret") \o <<"=", "A", "A">>}

IssuerPairs ==
  {<<>>,
   Lit("issuer") \o <<"=", "A">>,
   Lit("issuer") \o <<"=", "B">>,
   Lit("issuer") \o <<"=", "%", "4", "1">>,
   Lit("%69ssuer") \o <<"=", "B">>}

OtherPairs ==
  {<<>>,
   Lit("foo") \o <<"=", "1">>,
   Lit("secret") \o <<"=", "A", "A">>,
   Lit("algorithm") \o <<"=">> \o Lit("SHA512"),
   Lit("algorithm") \o <<"=">> \o Lit("MD5"),
   Lit("digits") \o <<"=", "8">>,
   Lit("digits") \o <<"=", "x">>,
   Lit("period") \o <<"=", "6", "0">>}

RECURSIVE JoinPairs(_)
JoinPairs(pairs) ==
  IF pairs = <<>> THEN <<>>
  ELSE IF pairs[1] = <<>> THEN JoinPairs(Tail(pairs))
  ELSE IF JoinPairs(Tail(pairs)) = <<>> THEN pairs[1]
  ELSE pairs[1] \o <<"&">> \o JoinPairs(Tail(pairs))

URIs ==
  {head \o label \o <<"?">> \o JoinPairs(<<secret, issuer, other>>) :
     head \in Heads, label \in Labels, secret \in SecretPairs,
     issuer \in IssuerPairs, other \in OtherPairs}

URICalls ==
  [fn : {"URI"}, pc : {"args"}, t : TOTPs]
    \cup [fn : {"ParseFromURI"}, pc : {"args"}, uri : URIs]

(* t.URI(), ParseFromURI of what it returned, and URI() of that.           *)
URICall ==
  /\ call.fn = "URI" /\ call.pc = "args"
  /\ LET out == URI(call.t)
         back == ParseFromURI(out)
     IN call' = [fn |-> "URI", pc |-> "done", t |-> call.t, out |-> out, back |-> back,
                 again |-> IF back.err THEN <<>> ELSE URI(back)]
  /\ UNCHANGED <<cacheVars, lifeVars, nc, protoVars, hsmVars>>

(* ParseFromURI(uri).                                                      *)
ParseFromURICall ==
  /\ call.fn = "ParseFromURI" /\ call.pc = "args"
  /\ call' = [fn |-> "ParseFromURI", pc |-> "done", uri |-> call.uri,
              out |-> ParseFromURI(call.uri)]
  /\ UNCHANGED <<cacheVars, lifeVars, nc, protoVars, hsmVars>>

InitURI == InitCall /\ call \in URICalls

NextURI == URICall \/ ParseFromURICall

SpecURI == InitURI /\ [][NextURI]_vars

(* --------------------------- totp: Generate ---------------------------- *)
(* The size of the sum of the hash of an algorithm.                        *)
HashSize(algorithm) ==
  CASE algorithm = "SHA1" -> 20 [] algorithm = "SHA256" -> 32 [] algorithm = "SHA512" -> 64

(* mac.Sum(nil): the bytes HMAC returns for the secret and the bytes       *)
(* written; of them the code reads the low half of the last byte and the   *)
(* four bytes at that offset, here the given ones in a sum that is zero    *)
(* elsewhere.                                                              *)
Sum(algorithm, offset, window, high) ==
  [i \in 1 .. HashSize(algorithm) |->
     IF i = HashSize(algorithm) THEN (16 * high) + offset
     ELSE IF i - 1 \in offset .. (offset + 3) THEN window[i - offset]
     ELSE 0]

(* binary.BigEndian.PutUint64 of a counter below 2^31.                     *)
PutUint64(counter) ==
  [i \in 1 .. 8 |-> IF i <= 4 THEN 0 ELSE (counter \div (256 ^ (8 - i))) % 256]

(* binary.BigEndian.Uint32 of four bytes, the first below 128.             *)
Uint32(b) == (((((b[1] * 256) + b[2]) * 256) + b[3]) * 256) + b[4]

PadCodeNone(code, digits) == code

(* for len(code) != digits { code = "0" + code }                           *)
RECURSIVE PadCode(_, _)
PadCode(code, digits) ==
  IF Len(code) = digits THEN code ELSE PadCode(<<"0">> \o code, digits)

(* generateOTP once the algorithm is known and the digits are 6 or 8: h is *)
(* what mac.Sum(nil) returned.                                             *)
generateOTP(h, digits) ==
  LET offset == h[Len(h)] % 16
      window == SubSeq(h, offset + 1, offset + 4)
      decimal == Uint32([window EXCEPT ![1] = window[1] % 128])
  IN PadCode(Itoa(decimal % (10 ^ digits)), digits)

(* t.Generate() at the Unix time unix: [err, code] and what was handed to  *)
(* HMAC, whose sum is the one given.                                       *)
Generate(t, unix, offset, window, high) ==
  IF GenerateErr(t)
    THEN [err |-> TRUE, code |-> <<>>, hash |-> "", key |-> Buffer(0), written |-> <<>>]
    ELSE [err |-> FALSE,
          code |-> generateOTP(Sum(t.Algorithm, offset, window, high), t.Digits),
          hash |-> t.Algorithm,
          key |-> t.Secret,
          written |-> PutUint64(unix \div t.Period)]

(* The TOTP objects, the Unix times and the sums of Generate.              *)
OTPs ==
  [Secret : {Buffer(0), Buffer(32)}, Algorithm : {"SHA1", "SHA256", "SHA512", "MD5"},
   Digits : 5 .. MaxDigits, Period : {29, 30, 60}]

UnixTimes == {0, 29, 30, 1700000000}

Offsets == {0, 5, 15}

Windows == {<<0, 0, 0, 1>>, <<255, 255, 255, 255>>, <<128, 1, 226, 64>>, <<7, 91, 205, 21>>}

GenerateCalls ==
  [fn : {"Generate"}, pc : {"args"}, t : OTPs, unix : UnixTimes,
   offset : Offsets, window : Windows, high : {0, 15}]

GenerateCall ==
  /\ call.fn = "Generate" /\ call.pc = "args"
  /\ call' = [call EXCEPT !.pc = "done"]
               @@ [out |-> Generate(call.t, call.unix, call.offset, call.window, call.high)]
  /\ UNCHANGED <<cacheVars, lifeVars, nc, protoVars, hsmVars>>

InitGenerate == InitCall /\ call \in GenerateCalls

NextGenerate == GenerateCall

SpecGenerate == InitGenerate /\ [][NextGenerate]_vars

(* ------------------------------ dvx/hsm -------------------------------- *)
(* The PKCS#11 module as hsm.go uses it.  A session handle is the number   *)
(* of the OpenSession that returned it; handle 0 is no session.  The       *)
(* login state belongs to the token: every session of the token shares it. *)
(* An object handle is the position of the object among the objects that   *)
(* carry Config.RootKeyLabel; handle 0 is no object.  A call that fails    *)
(* changes nothing; CloseSession and Logout fail only for a handle that    *)
(* is not open, and Logout for a token that is not logged in.              *)
ConfigLabel == "dvx"

TokenLabels == {ConfigLabel, "other"}

Mechanisms == {"CKM_SHA256_HMAC", "CKM_SHA512_HMAC"}

KeyLen(mech) == IF mech = "CKM_SHA256_HMAC" THEN 32 ELSE 64

(* GetSlotList(true): the slots with a token, each slot id once.           *)
SlotLists ==
  {l \in UNION {[1 .. n -> [id : 0 .. MaxSlots, label : TokenLabels]] : n \in 0 .. MaxSlots} :
     \A i, j \in 1 .. Len(l) : l[i].id = l[j].id => i = j}

OpenSession(tok) ==
  [tok EXCEPT !.opened = @ + 1, !.sessions = @ \cup {tok.opened + 1}]

Login(tok) == [tok EXCEPT !.login = TRUE]

Logout(tok, session) ==
  IF session \in tok.sessions THEN [tok EXCEPT !.login = FALSE] ELSE tok

(* The token is logged out when its last session is closed.                *)
CloseSession(tok, session) ==
  [tok EXCEPT !.sessions = @ \ {session},
              !.login = @ /\ tok.sessions \ {session} # {}]

Finalize(tok) == [tok EXCEPT !.ctx = "finalized", !.sessions = {}, !.login = FALSE]

(* hsm.initCtx: pkcs11.New and Initialize, either of which may fail.       *)
InitCtx ==
  /\ pool.pc = "initCtx"
  /\ \E fail \in {"none", "New", "Initialize"} :
       IF fail = "none"
       THEN /\ token' = [token EXCEPT !.ctx = "initialized"]
            /\ pool' = [pool EXCEPT !.pc = "selectSlot"]
       ELSE /\ token' = token
            /\ pool' = [pool EXCEPT !.pc = "failed", !.err = fail]
  /\ UNCHANGED <<cacheVars, lifeVars, nc, protoVars, call, kdfs>>

(* The loop of hsm.selectSlot from slot i on: infoFails is the index of    *)
(* the slot whose GetTokenInfo fails, 0 for none.                          *)
RECURSIVE SelectLoop(_, _, _, _)
SelectLoop(slots, i, infoFails, selectedSlot) ==
  IF i > Len(slots) THEN [err |-> "none", selectedSlot |-> selectedSlot]
  ELSE IF i = infoFails THEN [err |-> "GetTokenInfo", selectedSlot |-> selectedSlot]
  ELSE SelectLoop(slots, i + 1, infoFails,
                  IF slots[i].label # ConfigLabel THEN selectedSlot ELSE slots[i].id)

selectSlot(slots, listFails, infoFails) ==
  IF listFails THEN [err |-> "GetSlotList", selectedSlot |-> 0]
  ELSE LET loop == SelectLoop(slots, 1, infoFails, 0)
       IN  IF loop.err = "none" /\ loop.selectedSlot = 0
           THEN [err |-> "slot not found", selectedSlot |-> 0]
           ELSE loop

SelectSlot ==
  /\ pool.pc = "selectSlot"
  /\ \E listFails \in BOOLEAN, infoFails \in 0 .. Len(token.slots) :
       LET r == selectSlot(token.slots, listFails, infoFails)
       IN  pool' = IF r.err = "none"
                   THEN [pool EXCEPT !.pc = "checkMechanismSupport", !.slot = r.selectedSlot]
                   ELSE [pool EXCEPT !.pc = "failed", !.err = r.err]
  /\ UNCHANGED <<cacheVars, lifeVars, nc, protoVars, call, token, kdfs>>

checkMechanismSupport(supportedMechanisms, listFails) ==
  IF listFails THEN "GetMechanismList"
  ELSE IF "CKM_SHA256_HMAC" \notin supportedMechanisms THEN "CKM_SHA256_HMAC not supported"
  ELSE IF "CKM_SHA512_HMAC" \notin supportedMechanisms THEN "CKM_SHA512_HMAC not supported"
  ELSE "none"

CheckMechanismSupport ==
  /\ pool.pc = "checkMechanismSupport"
  /\ \E listFails \in BOOLEAN :
       LET err == checkMechanismSupport(token.mechs, listFails)
       IN  pool' = IF err = "none"
                   THEN [pool EXCEPT !.pc = "findAndSetKey"]
                   ELSE [pool EXCEPT !.pc = "failed", !.err = err]
  /\ UNCHANGED <<cacheVars, lifeVars, nc, protoVars, call, token, kdfs>>

(* What inSession does when Login has failed: with finishAfterUse the      *)
(* deferred closeSession runs, without it inSession just returns.          *)
AfterLoginFailureLeaks(finishAfterUse) == "returned"

AfterLoginFailure(finishAfterUse) ==
  IF finishAfterUse THEN "closeSession" ELSE "returned"

(* hsm.inSession(false, callback): the token after it, the session and the *)
(* error it returns.  fail is the call that fails: OpenSession, Login, a   *)
(* call of the callback, or none.                                          *)
inSession(tok, fail) ==
  IF fail = "OpenSession" THEN [token |-> tok, session |-> 0, err |-> fail]
  ELSE IF fail = "Login"
  THEN [token |-> IF AfterLoginFailure(FALSE) = "returned"
                  THEN OpenSession(tok)
                  ELSE CloseSession(OpenSession(tok), tok.opened + 1),
        session |-> 0, err |-> fail]
  ELSE [token |-> Login(OpenSession(tok)), session |-> tok.opened + 1, err |-> fail]

(* hsm.findAndSetKey, and what New does with its result when a key was     *)
(* found or the search failed.  FindObjects(session, 1) returns at most    *)
(* one handle, the first object of the label.                              *)
FindAndSetKey ==
  /\ pool.pc = "findAndSetKey"
  /\ \E fail \in {"none", "OpenSession", "Login", "FindObjectsInit", "FindObjects",
                  "FindObjectsFinal"} :
       LET r == inSession(token, fail)
       IN  /\ token' = r.token
           /\ pool' = IF r.err # "none"
                      THEN [pool EXCEPT !.pc = "failed", !.err = r.err,
                                        !.keySession = r.session]
                      ELSE IF token.objects = 0
                      THEN [pool EXCEPT !.pc = "generateKey", !.keySession = r.session]
                      ELSE [pool EXCEPT !.pc = "ready", !.keySession = r.session,
                                        !.key = 1]
  /\ UNCHANGED <<cacheVars, lifeVars, nc, protoVars, call, kdfs>>

(* New when no key was found: the session of the search is logged out and  *)
(* closed.                                                                 *)
FinishSearchKeeps(tok, session) == tok

FinishSearch(tok, session) == CloseSession(Logout(tok, session), session)

(* New when no key was found: hsm.generateKey after the search session is  *)
(* finished.                                                               *)
GenerateKey ==
  /\ pool.pc = "generateKey"
  /\ \E fail \in {"none", "OpenSession", "Login", "GenerateKey"} :
       LET r == inSession(FinishSearch(token, pool.keySession), fail)
       IN  IF r.err # "none"
           THEN /\ token' = r.token
                /\ pool' = [pool EXCEPT !.pc = "failed", !.err = r.err,
                                        !.keySession = r.session]
           ELSE /\ token' = [r.token EXCEPT !.objects = @ + 1, !.generated = @ + 1]
                /\ pool' = [pool EXCEPT !.pc = "ready", !.keySession = r.session,
                                        !.key = token.objects + 1]
  /\ UNCHANGED <<cacheVars, lifeVars, nc, protoVars, call, kdfs>>

(* hsm.kdf, one PKCS#11 call at a time: callers run it concurrently.       *)
(* KDF32 or KDF64 is called, and inSession opens its session.              *)
KdfOpenSession(t) ==
  /\ pool.pc = "ready"
  /\ kdfs[t].pc \in {"idle", "returned"}
  /\ token.opened < MaxSessions
  /\ \E mech \in Mechanisms, fail \in BOOLEAN :
       IF fail
       THEN /\ token' = token
            /\ kdfs' = [kdfs EXCEPT ![t] = [pc |-> "returned", mech |-> mech, session |-> 0,
                                           err |-> "OpenSession", key |-> 0]]
       ELSE /\ token' = OpenSession(token)
            /\ kdfs' = [kdfs EXCEPT ![t] = [pc |-> "login", mech |-> mech,
                                           session |-> token.opened + 1,
                                           err |-> "none", key |-> 0]]
  /\ UNCHANGED <<cacheVars, lifeVars, nc, protoVars, call, pool>>

(* Login: CKR_USER_ALREADY_LOGGED_IN counts as success.                    *)
KdfLogin(t) ==
  /\ kdfs[t].pc = "login"
  /\ \E fail \in BOOLEAN :
       IF fail
       THEN /\ token' = token
            /\ kdfs' = [kdfs EXCEPT ![t].pc = AfterLoginFailure(TRUE), ![t].err = "Login"]
       ELSE /\ token' = Login(token)
            /\ kdfs' = [kdfs EXCEPT ![t].pc = "signInit"]
  /\ UNCHANGED <<cacheVars, lifeVars, nc, protoVars, call, pool>>

(* SignInit with h.key: the key is a private object, which a session of a  *)
(* token that is not logged in cannot use.                                 *)
KdfSignInit(t) ==
  /\ kdfs[t].pc = "signInit"
  /\ \E fail \in BOOLEAN :
       kdfs' = [kdfs EXCEPT ![t].pc = IF token.login /\ ~fail THEN "sign" ELSE "logout",
                            ![t].err = IF ~token.login THEN "CKR_USER_NOT_LOGGED_IN"
                                       ELSE IF fail THEN "SignInit" ELSE "none"]
  /\ UNCHANGED <<cacheVars, lifeVars, nc, protoVars, call, token, pool>>

(* Sign and the check of the tag's length.  After a logout the operation   *)
(* SignInit began may or may not be active still.                          *)
KdfSign(t) ==
  /\ kdfs[t].pc = "sign"
  /\ \E fail \in BOOLEAN, active \in BOOLEAN, len \in {32, 64} :
       /\ token.login => active
       /\ kdfs' = [kdfs EXCEPT ![t].pc = "logout",
                               ![t].err = IF ~active THEN "CKR_USER_NOT_LOGGED_IN"
                                          ELSE IF fail THEN "Sign"
                                          ELSE IF len # KeyLen(kdfs[t].mech) THEN "length"
                                          ELSE "none",
                               ![t].key = IF active /\ ~fail /\ len = KeyLen(kdfs[t].mech)
                                          THEN len ELSE 0]
  /\ UNCHANGED <<cacheVars, lifeVars, nc, protoVars, call, token, pool>>

(* The deferred logoutSession.                                             *)
KdfLogout(t) ==
  /\ kdfs[t].pc = "logout"
  /\ token' = Logout(token, kdfs[t].session)
  /\ kdfs' = [kdfs EXCEPT ![t].pc = "closeSession"]
  /\ UNCHANGED <<cacheVars, lifeVars, nc, protoVars, call, pool>>

(* The deferred closeSession, after which kdf returns.                     *)
KdfCloseSession(t) ==
  /\ kdfs[t].pc = "closeSession"
  /\ token' = CloseSession(token, kdfs[t].session)
  /\ kdfs' = [kdfs EXCEPT ![t].pc = "returned"]
  /\ UNCHANGED <<cacheVars, lifeVars, nc, protoVars, call, pool>>

(* hsm.Close, called when no derivation is running.                        *)
HsmClose ==
  /\ pool.pc = "ready"
  /\ \A t \in Derivers : kdfs[t].pc \in {"idle", "returned"}
  /\ \E fail \in BOOLEAN :
       LET tok == CloseSession(Logout(token, pool.keySession), pool.keySession)
       IN  /\ token' = IF fail THEN tok ELSE Finalize(tok)
           /\ pool' = [pool EXCEPT !.pc = "closed", !.err = IF fail THEN "Finalize" ELSE "none"]
  /\ UNCHANGED <<cacheVars, lifeVars, nc, protoVars, call, kdfs>>

(* hsm.New is called for a module whose token has any slots, mechanisms    *)
(* and objects; no cache and no Protocol is in use.                        *)
InitHSM ==
  /\ InitBuckets /\ NotStarted /\ scenario = NoScenario
  /\ jump = [k \in Keys |-> 0]
  /\ nc = NoNewCache
  /\ NoProtocol
  /\ call = NoCall
  /\ token \in [ctx : {"none"}, slots : SlotLists, mechs : SUBSET Mechanisms,
                objects : 0 .. MaxObjects, generated : {0}, sessions : {{}},
                opened : {0}, login : {FALSE}]
  /\ pool = [pc |-> "initCtx", slot |-> 0, keySession |-> 0, key |-> 0, err |-> "none"]
  /\ kdfs = [t \in Derivers |-> IdleKdf]

(* The construction of the pool and its Close.                             *)
NextHSMNew ==
  \/ InitCtx
  \/ SelectSlot
  \/ CheckMechanismSupport
  \/ FindAndSetKey
  \/ GenerateKey
  \/ HsmClose

SpecHSMNew == InitHSM /\ [][NextHSMNew]_vars

(* The pool in use: hsm.New for a token in one slot that has both          *)
(* mechanisms, then derivations by callers that run at once, then Close.   *)
InitHSMUse ==
  /\ InitHSM
  /\ token.slots = <<[id |-> 1, label |-> ConfigLabel]>>
  /\ token.mechs = Mechanisms

NextHSM ==
  \/ NextHSMNew
  \/ \E t \in Derivers : KdfOpenSession(t)
  \/ \E t \in Derivers : KdfLogin(t)
  \/ \E t \in Derivers : KdfSignInit(t)
  \/ \E t \in Derivers : KdfSign(t)
  \/ \E t \in Derivers : KdfLogout(t)
  \/ \E t \in Derivers : KdfCloseSession(t)

SpecHSM == InitHSMUse /\ [][NextHSM]_vars

(* ------------------------------- claims -------------------------------- *)
(* C1: on the wrapper pool, KDF32(r) returns the wrapped pool's KDF32(r)   *)
(* and KDF64(r) the wrapped pool's KDF64(r), after any earlier calls: a    *)
(* Get that returns a value returns the wrapped pool's key of the asked    *)
(* length for the asked keyRing.                                           *)
C1_WrapperReturnsWrappedKey ==
  (ev.kind = "ret" /\ ~ev.err) => ev.value = SrcKDF(ev.hint, ev.key)

(* C2: Get invokes the loader exactly when the key is not resident at the  *)
(* lookup; a hit returns the value the latest successful load stored, a    *)
(* miss the value the loader just produced.                                *)
C2_LoaderIffMiss ==
  ev.kind = "ret" =>
    /\ ev.loaderCalled <=> ~ev.wasResident
    /\ ev.wasResident => (~ev.err /\ ev.value # NoValue /\ ev.value = ev.expected)
    /\ (~ev.wasResident /\ ~ev.err) => ev.value = LoaderValue(ev.key, ev.hint)

(* A hit returned a stored value that the loader would not have produced   *)
(* for this call.                                                          *)
C2_Witness ==
  /\ ev.kind = "ret" /\ ev.wasResident /\ ~ev.loaderCalled
  /\ ev.value # LoaderValue(ev.key, ev.hint)

(* C3: a key that a Get hit before its original deadline is not evicted by *)
(* the reaper on account of that deadline: the reaper removes it only once *)
(* the deadline the latest hit asked for (hit time + 1 minute) has come.   *)
C3_HitPostponesEviction ==
  [][\A k \in Keys :
       (ev'.kind = "reap" /\ k \in ev'.gone /\ hist[k].lastHit >= 0
          /\ hist[k].lastHit < hist[k].loadDl)
         => now >= HitEvictionTime(k, hist[k].lastHit)]_vars

(* C4: a key that was loaded and not accessed since is resident no longer  *)
(* than MaxTick (plus the slack) after its deadline, load time + evictIn.  *)
C4_UnusedKeyEvictedByDeadline ==
  \A k \in Keys :
    (Resident(k) /\ hist[k].loadDone /\ hist[k].lastHit = -1)
      => now <= hist[k].loadDl + MaxTick + Slack

RECURSIVE SumLen(_)
SumLen(bs) ==
  IF bs = {} THEN 0
  ELSE LET b == CHOOSE x \in bs : TRUE IN ARCLen(arc[b]) + SumLen(bs \ {b})

(* C6: no bucket holds more than size/shards keys, and the buckets         *)
(* together never hold more than size keys.                                *)
C6_ResidentWithinCapacity ==
  /\ \A b \in Buckets : ARCLen(arc[b]) <= SlotsPerShard
  /\ SumLen(Buckets) <= Size

(* A full bucket whose queue holds more items than the bucket has slots:   *)
(* a Set has replaced a key.                                               *)
C6_Witness ==
  \E b \in Buckets : ARCLen(arc[b]) = SlotsPerShard /\ Len(eq[b]) > SlotsPerShard

(* C7: the EvictedFunc is started for a key only by a reap turn that       *)
(* itself removed the key from the ARC, so at most once per residency.     *)
C7_EvictedOncePerResidency ==
  ev.kind = "reap" => ev.notified \subseteq ev.gone

(* reap popped an item whose key the ARC no longer held, and stayed quiet. *)
C7_Witness ==
  ev.kind = "reap" /\ ev.gone = {} /\ ev.notified = {}

(* The deadline of key's current heap item before and after a step.        *)
DeadlineOf(k) == Deadline(eq[jump[k]], eqPtrMap[jump[k]][k])

(* A refresh goroutine of an earlier hit ran in this step and found the    *)
(* key's heap item.                                                        *)
Refreshed(g) == g \in refresh /\ g \notin refresh' /\ eqPtrMap[jump[g.key]][g.key] # 0

(* C8: a Get hit slides the key's deadline forward: once the refresh is    *)
(* applied the deadline is at or after the one the key had before.         *)
C8_HitSlidesDeadlineForward ==
  [][\A g \in refresh : Refreshed(g) => DeadlineOf(g.key)' >= DeadlineOf(g.key)]_vars

(* C9: every use resets the deadline to the time of the use plus the       *)
(* evictIn configured for the key: a load's heap item carries load time +  *)
(* evictIn, and an applied refresh sets hit time + evictIn.                *)
C9_DeadlineIsUsePlusEvictIn ==
  [][/\ \A g \in refresh :
          Refreshed(g) => DeadlineOf(g.key)' = g.at + LoaderEvictIn(g.key)
     /\ \A t \in Threads, k \in Keys :
          (thr[t].pc = "push" /\ thr[t].key = k /\ thr'[t].pc = "idle")
            => DeadlineOf(k)' = thr[t].evictionTime]_vars

(* C10: whenever a key stops being resident, by the reaper or by ARC       *)
(* replacement, the EvictedFunc is started for it.                         *)
C10_EvictionNotifies ==
  [][\A k \in Keys : (Resident(k) /\ ~Resident(k)') => k \in ev'.notified]_vars

(* C11: a Get that runs together with Close, or after it, does not panic   *)
(* on the released state of the bucket.                                    *)
C11_GetSafeWithClose == ~crashed /\ ev.kind # "panic"

(* C12: once Close has been called it returns, and by then every bucket's  *)
(* reaper has stopped (unless the process has died of a panic meanwhile).  *)
C12_CloseReturnsReapersStopped ==
  (closer[1].pc # "idle") ~>
    (crashed \/ (closer[1].pc = "idle" /\ \A b \in Buckets : task[b] = "stopped"))

(* C13: every call of Close returns, whoever else is calling it, and a     *)
(* bucket once purged stays as the purge left it.                          *)
C13_CloseIdempotent ==
  /\ \A c \in Closers : (closer[c].pc # "idle") ~> (crashed \/ closer[c].pc = "idle")
  /\ [][\A b \in Buckets :
          Closed(b) => /\ Closed(b)'
                       /\ arc'[b] = arc[b] /\ eq'[b] = eq[b]
                       /\ eqPtrMap'[b] = eqPtrMap[b]]_vars

(* C14: after the wrapper's Close the reapers of its cache have stopped    *)
(* and no Get returns a key from the cache.                                *)
C14_WrapperCloseDropsKeys ==
  srcClosed =>
    /\ \A b \in Buckets : task[b] = "stopped"
    /\ ~(ev.kind = "ret" /\ ~ev.err /\ ~ev.loaderCalled)

(* C15: once the software pool is closed, every byte of the root buffer it *)
(* was handed is zero.                                                     *)
C15_RootZeroedOnClose ==
  rootKey = "nil" => \A i \in 1 .. Len(rootBuf) : rootBuf[i] = 0

(* A value buffer that holds zeros: it carries no derived key.             *)
Zeroed(v) == v[2] = NoKey

(* C16: the value buffers a reap or a purge lets go hold zeros.            *)
C16_ReleasedBuffersZeroed ==
  ev.kind \in {"reap", "purge"} => \A v \in ev.released : Zeroed(v)

(* What the configuration rules call invalid.                              *)
ConfigInvalid(a) ==
  \/ a.size <= 0 \/ a.shards <= 0 \/ a.size % a.shards # 0
  \/ a.loaderNil \/ a.configNil
  \/ a.minTick >= a.maxTick \/ a.minTick <= 0 \/ a.maxTick <= 0

(* C17: NewCache refuses every invalid configuration, making no bucket and *)
(* starting no reaper, and the reapers of a cache it made do not crash.    *)
C17_NewCacheValidates ==
  /\ (nc.pc \notin {"none", "args"} /\ ConfigInvalid(nc)) =>
       (nc.pc = "err" /\ nc.buckets = 0 /\ nc.reapers = 0)
  /\ nc.pc # "crashed"

(* C18: Decrypt of what Encrypt returned for (kr1, d), made with kr2 on    *)
(* the open pool, returns d and no error when kr1 and kr2 normalize to the *)
(* same key-ring bytes, and an error and no data when they do not.         *)
C18_DecryptRoundTrip ==
  (res.op = "decrypt" /\ res.open) =>
    IF keyRingToBytes(res.keyRing) = keyRingToBytes(sealed.keyRing)
      THEN ~res.err /\ res.data = sealed.data
      ELSE res.err /\ res.data = <<>>

(* A Decrypt with another keyRing string of the same bytes returned the    *)
(* data.                                                                   *)
C18_Witness ==
  /\ res.op = "decrypt" /\ res.open /\ ~res.err
  /\ res.keyRing # sealed.keyRing
  /\ res.data = sealed.data /\ sealed.data # <<>>

(* Unpadded standard base64, read as a number: the characters are the      *)
(* digits in base 64 of the bits, most significant first; the bytes are    *)
(* the whole bytes among those bits.                                       *)
RECURSIVE Pow(_, _)
Pow(b, n) == IF n = 0 THEN 1 ELSE b * Pow(b, n - 1)

IsB64Text(str) ==
  /\ \A i \in 1 .. Len(str) : str[i] \in {"A", "Q"}
  /\ Len(str) % 4 # 1

RECURSIVE B64Number(_)
B64Number(str) ==
  IF str = <<>> THEN 0
  ELSE B64Number(SubSeq(str, 1, Len(str) - 1)) * 64
         + (IF str[Len(str)] = "Q" THEN 16 ELSE 0)

B64Bytes(str) ==
  LET m == (6 * Len(str)) \div 8
      whole == B64Number(str) \div Pow(2, 6 * Len(str) - 8 * m)
  IN [j \in 1 .. m |-> (whole \div Pow(256, m - j)) % 256]

HasColon(str) == \E i \in 1 .. Len(str) : str[i] = ":"

(* The text after the first ':' of str.                                    *)
AfterColon(str) ==
  LET first == CHOOSE i \in 1 .. Len(str) :
                 str[i] = ":" /\ \A j \in 1 .. Len(str) : str[j] = ":" => i <= j
  IN [i \in 1 .. (Len(str) - first) |-> str[first + i]]

Decodable(str) == HasColon(str) /\ IsB64Text(AfterColon(str))

(* The key-ring bytes the normalization rule gives.                        *)
Normalized(str) ==
  IF Decodable(str) THEN B64Bytes(AfterColon(str))
  ELSE [i \in 1 .. Len(str) |-> CASE str[i] = ":" -> 58 [] str[i] = "A" -> 65
                                    [] str[i] = "Q" -> 81]

(* C19: on the open pool, Encrypt and Decrypt derive their keys from the   *)
(* normalized key ring: the keyRing's own bytes without ':', the unpadded  *)
(* standard base64 decoding of the text after the first ':' when that      *)
(* decodes, the whole string's bytes otherwise; and of two keyRings with   *)
(* decodable suffixes the keys are equal exactly when the decoded suffixes *)
(* are.                                                                    *)
C19_KeyRingNormalization ==
  (sealed.done /\ ~sealed.err) =>
    LET sealKey == sealed.ciphertext.data.key
    IN /\ sealKey.msg = Normalized(sealed.keyRing)
       /\ (res.op = "decrypt" /\ res.open) =>
            /\ ~res.key.err /\ res.key.msg = Normalized(res.keyRing)
            /\ (Decodable(sealed.keyRing) /\ Decodable(res.keyRing)) =>
                 (res.key = sealKey <=>
                    B64Bytes(AfterColon(res.keyRing)) = B64Bytes(AfterColon(sealed.keyRing)))

(* Two keyRings of different prefixes and the same decodable, non-empty    *)
(* suffix derived one key.                                                 *)
C19_Witness ==
  /\ sealed.done /\ ~sealed.err /\ res.op = "decrypt" /\ res.open
  /\ Decodable(sealed.keyRing) /\ Decodable(res.keyRing)
  /\ res.keyRing # sealed.keyRing
  /\ AfterColon(res.keyRing) = AfterColon(sealed.keyRing)
  /\ AfterColon(res.keyRing) # <<>>
  /\ res.key = sealed.ciphertext.data.key

(* Two VerifyTOTP calls, the first of which accepted the code the second   *)
(* is asked about; the second is made on the open pool.                    *)
SameCodeAgain ==
  /\ accepted.op = "verify" /\ accepted.valid
  /\ res.op = "verify" /\ res.open
  /\ res.code = accepted.code

SameKeyRingBytes == keyRingToBytes(res.keyRing) = keyRingToBytes(accepted.keyRing)

(* C20 as stated: a code accepted for (keyRing, id, accountID) is rejected *)
(* without an error for the same id and another keyRing, for the same id   *)
(* and another accountID, and for the id of another GenerateTOTP call.     *)
C20_RejectedForOtherArguments ==
  SameCodeAgain =>
    LET otherKeyRing == /\ res.keyRing # accepted.keyRing /\ res.id = accepted.id
                        /\ res.accountID = accepted.accountID
        otherAccount == /\ res.keyRing = accepted.keyRing /\ res.id = accepted.id
                        /\ res.accountID # accepted.accountID
        otherId == /\ res.keyRing = accepted.keyRing /\ res.id # accepted.id
                   /\ res.accountID = accepted.accountID
    IN (otherKeyRing \/ otherAccount \/ otherId) => (~res.valid /\ ~res.err)

(* C20, amended: the second call returns no error; with a keyRing of the   *)
(* same normalized bytes, the same id and the same accountID it accepts    *)
(* the code; with a keyRing of other bytes, another accountID or another   *)
(* call's id it verifies against another secret, and rejects the code      *)
(* unless that secret's current code is the same.                          *)
C20_BoundToNormalizedArguments ==
  SameCodeAgain =>
    /\ ~res.err
    /\ IF SameKeyRingBytes /\ res.id = accepted.id /\ res.accountID = accepted.accountID
         THEN res.key = accepted.key /\ res.valid
         ELSE /\ res.key # accepted.key
              /\ res.valid <=> (res.expected = accepted.expected)

(* A code accepted for an account was rejected for another account under   *)
(* the same keyRing and id.                                                *)
C20_Witness ==
  /\ SameCodeAgain
  /\ res.keyRing = accepted.keyRing /\ res.id = accepted.id
  /\ res.accountID # accepted.accountID
  /\ ~res.valid /\ ~res.err

(* The secret of (keyRing, rawID, accountID) on a pool of a 64-byte root:  *)
(* MAC256(MAC512(KDF64(key-ring bytes), rawID), accountID bytes).          *)
TOTPSecret(keyRing, rawID, accountID) ==
  LET root == [err |-> FALSE, len |-> 64, fn |-> "root", key |-> <<>>, msg |-> <<>>]
      totpSK == [err |-> FALSE, len |-> 64, fn |-> "mac512", key |-> root,
                 msg |-> Normalized(keyRing)]
      intermediate == [err |-> FALSE, len |-> 64, fn |-> "mac512", key |-> totpSK,
                       msg |-> rawID]
  IN [err |-> FALSE, len |-> 32, fn |-> "mac256", key |-> intermediate,
      msg |-> [i \in 1 .. Len(accountID) |-> IF accountID[i] = "A" THEN 65 ELSE 81]]

(* The VerifyTOTP res is asked, on the open pool, about the code of the    *)
(* n-th generated selector, with its id and its arguments.                 *)
VerifiesGenerated(n) ==
  /\ res.op = "verify" /\ res.open
  /\ res.id = totps[n].id
  /\ res.keyRing = totps[n].keyRing
  /\ res.accountID = totps[n].accountID
  /\ res.code = totps[n].code

(* C21: the secret of every generated selector is the 32-byte              *)
(* MAC256(MAC512(KDF64(keyRing bytes), rawID), accountID bytes), used with *)
(* SHA256, 6 digits and a period of 30; VerifyTOTP derives the same secret *)
(* from the same keyRing, id and accountID, and accepts the code generated *)
(* from it in the same time step.                                          *)
C21_SameSecretCodeAccepted ==
  \A n \in 1 .. Len(totps) :
    /\ totps[n].key = TOTPSecret(totps[n].keyRing, totps[n].id.data, totps[n].accountID)
    /\ ProtocolTOTP(totps[n].key).Algorithm = "SHA256"
    /\ ProtocolTOTP(totps[n].key).Digits = 6
    /\ ProtocolTOTP(totps[n].key).Period = 30
    /\ VerifiesGenerated(n) =>
         /\ res.key = totps[n].key
         /\ res.valid /\ ~res.err

(* The code of the second selector was verified with its id and accepted.  *)
C21_Witness ==
  /\ Len(totps) = 2
  /\ VerifiesGenerated(2)
  /\ res.valid

(* Verify or VerifyPK was handed the signature string Sign returned.       *)
ChecksSigned ==
  /\ signed.done /\ ~signed.err
  /\ res.signature = signed.signature

SignedFor == Normalized(res.keyRing) = Normalized(signed.keyRing) /\ res.message = signed.message

(* C22: on the open pool of a 64-byte root Verify(kr2, m2, Sign(kr1, m1))  *)
(* returns no error,                                                       *)
(* and valid exactly when kr1 and kr2 normalize to the same bytes and      *)
(* m1 = m2; VerifyPK with the key CreateSignKey(kr2) returned does the     *)
(* same; 64 bytes that are no signature give valid = false and no error.   *)
C22_VerifySigned ==
  /\ (res.op = "Verify" /\ res.open /\ ChecksSigned) =>
       (~res.err /\ (res.valid <=> SignedFor))
  /\ (res.op = "VerifyPK" /\ ChecksSigned) =>
       (~res.err /\ (res.valid <=> SignedFor))
  /\ (((res.op = "Verify" /\ res.open /\ Len(rootBuf) = 64) \/ res.op = "VerifyPK")
        /\ res.signature = Encode(Signed, Forged)) =>
       (~res.err /\ ~res.valid)

(* Verify accepted the signature under another keyRing string of the same  *)
(* bytes.                                                                  *)
C22_Witness ==
  /\ res.op = "Verify" /\ res.open /\ ChecksSigned
  /\ res.keyRing # signed.keyRing
  /\ signed.message # <<>>
  /\ res.valid

(* Unpadded base64url, read as bits: the bits of the bytes, most           *)
(* significant first, filled with zeros to a multiple of six, six to a     *)
(* character of A-Z a-z 0-9 - _ in this order.                             *)
BitOf(data, i) ==
  IF i > 8 * Len(data) THEN 0
  ELSE (data[(i - 1) \div 8 + 1] \div Pow(2, 7 - ((i - 1) % 8))) % 2

Sextet(data, k) ==
  32 * BitOf(data, 6 * k - 5) + 16 * BitOf(data, 6 * k - 4) + 8 * BitOf(data, 6 * k - 3)
    + 4 * BitOf(data, 6 * k - 2) + 2 * BitOf(data, 6 * k - 1) + BitOf(data, 6 * k)

UrlChar(v) ==
  IF v < 26 THEN SubSeq(<<"A", "B", "C", "D", "E", "F", "G", "H", "I", "J", "K", "L", "M",
                          "N", "O", "P", "Q", "R", "S", "T", "U", "V", "W", "X", "Y", "Z">>,
                        v + 1, v + 1)[1]
  ELSE IF v < 52 THEN SubSeq(<<"a", "b", "c", "d", "e", "f", "g", "h", "i", "j", "k", "l", "m",
                               "n", "o", "p", "q", "r", "s", "t", "u", "v", "w", "x", "y", "z">>,
                             v - 25, v - 25)[1]
  ELSE IF v < 62 THEN SubSeq(<<"0", "1", "2", "3", "4", "5", "6", "7", "8", "9">>,
                             v - 51, v - 51)[1]
  ELSE IF v = 62 THEN "-" ELSE "_"

UnpaddedB64Url(data) ==
  [k \in 1 .. ((8 * Len(data) + 5) \div 6) |-> UrlChar(Sextet(data, k))]

(* The names of the envelope, letter by letter.                            *)
Letters(word) ==
  CASE word = "dv1" -> <<"d", "v", "1">>
    [] word = "enc" -> <<"e", "n", "c">>
    [] word = "sig" -> <<"s", "i", "g">>
    [] word = "tag" -> <<"t", "a", "g">>
    [] word = "totp" -> <<"t", "o", "t", "p">>

(* The fields of str between its '.' characters.                           *)
Dots(str) == {i \in 1 .. Len(str) : str[i] = "."}

Field(str, n) ==
  LET before == IF n = 1 THEN 0
                ELSE CHOOSE i \in Dots(str) :
                       Cardinality({j \in Dots(str) : j < i}) = n - 2
      after == IF n = Cardinality(Dots(str)) + 1 THEN Len(str) + 1
               ELSE CHOOSE i \in Dots(str) :
                      Cardinality({j \in Dots(str) : j < i}) = n - 1
  IN [i \in 1 .. (after - before - 1) |-> str[before + i]]

(* C23: Encode(t, x) is three fields between two '.': "dv1", t and the     *)
(* unpadded base64url of x; and Decode of it returns ("dv1", t, x) and no  *)
(* error.                                                                  *)
C23_EnvelopeRoundTrip ==
  (call.fn = "Encode" /\ call.pc = "done") =>
    /\ Cardinality(Dots(call.out)) = 2
    /\ Field(call.out, 1) = Letters("dv1")
    /\ Field(call.out, 2) = Letters(call.typePrefix)
    /\ Field(call.out, 3) = UnpaddedB64Url(call.data)
    /\ ~call.back.err
    /\ call.back.version = Letters("dv1")
    /\ call.back.typePrefix = Letters(call.typePrefix)
    /\ call.back.data = call.data

(* A totp envelope of two bytes, one of them 255, was encoded.             *)
C23_Witness ==
  /\ call.fn = "Encode" /\ call.pc = "done"
  /\ call.typePrefix = "totp"
  /\ Len(call.data) = 2 /\ call.data[1] = 255
  /\ ~call.back.err

(* An envelope of three fields, "dv1", a type prefix and unpadded          *)
(* base64url text.                                                         *)
IsUrlText(str) ==
  /\ \A i \in 1 .. Len(str) : \E v \in 0 .. 63 : str[i] = UrlChar(v)
  /\ Len(str) % 4 # 1

WellFormed(str) ==
  /\ Cardinality(Dots(str)) = 2
  /\ Field(str, 1) = Letters("dv1")
  /\ \E t \in {"enc", "sig", "tag", "totp"} : Field(str, 2) = Letters(t)
  /\ IsUrlText(Field(str, 3))

(* C24: Decode returns an error for every string that is not three fields, *)
(* "dv1", a type prefix and unpadded base64url data; DecodeExpect returns  *)
(* an error for those and for every other type prefix than the expected.   *)
C24_DecodeRefusesMalformed ==
  /\ (call.fn = "Decode" /\ call.pc = "done" /\ ~WellFormed(call.str)) => call.out.err
  /\ (call.fn = "DecodeExpect" /\ call.pc = "done") =>
       ((~WellFormed(call.str) \/ Field(call.str, 2) # Letters(call.expected))
          => call.out.err)

Returned == call.pc = "done"

(* C25: DV1 returns an error and nothing else from Encrypt unless the key  *)
(* is 32 bytes long, from MAC256 and MAC512 unless the key is 64 bytes     *)
(* long, from Decrypt when the blob is shorter than 24 bytes, and from     *)
(* Verify unless the public key is 32 and the signature 64 bytes long.     *)
C25_BadLengthsRefused ==
  Returned =>
    /\ (call.fn = "DV1.Encrypt" /\ call.key.len # 32) =>
         (call.out.err /\ call.out.cipher = <<>>)
    /\ (call.fn \in {"DV1.MAC256", "DV1.MAC512"} /\ call.key.len # 64) =>
         (call.out.err /\ call.out.len = 0)
    /\ (call.fn = "DV1.Decrypt" /\ call.cipher.len < 24) =>
         (call.out.err /\ call.out.data = <<>>)
    /\ (call.fn = "DV1.Verify" /\ (call.publicKey.len # 32 \/ call.signature.len # 64)) =>
         (call.out.err /\ ~call.out.valid)

(* Verify with a 32-byte public key refused a signature of 63 bytes.       *)
C25_Witness ==
  /\ Returned /\ call.fn = "DV1.Verify"
  /\ call.publicKey.len = 32 /\ call.signature.len = 63
  /\ call.out.err

SameTOTP(a, b) ==
  /\ a.Secret = b.Secret /\ a.Algorithm = b.Algorithm /\ a.Digits = b.Digits
  /\ a.Period = b.Period /\ a.Issuer = b.Issuer /\ a.AccountName = b.AccountName

(* C26: for every TOTP object t with a non-empty secret, whatever its      *)
(* issuer and account name, ParseFromURI(t.URI()) succeeds and returns t's *)
(* secret, algorithm, digits, period, issuer and account name, and URI()   *)
(* of the parsed object is t.URI() again.                                  *)
C26_URIRoundTrip ==
  (Returned /\ call.fn = "URI" /\ call.t.Secret # <<>>) =>
    /\ ~call.back.err
    /\ SameTOTP(call.back, call.t)
    /\ call.again = call.out

(* The pairs of the query of a URI as written, and those whose key reads   *)
(* as the given word once unescaped.                                       *)
WrittenPairs(uri) ==
  SelectSeq(Split(Cut(uri, "?")[2], "&"), LAMBDA pair : pair # <<>>)

WrittenKey(pair) ==
  IF UnescapeErr(Cut(pair, "=")[1]) THEN <<>> ELSE Unescape(Cut(pair, "=")[1], TRUE)

Written(uri, word) ==
  SelectSeq(WrittenPairs(uri), LAMBDA pair : WrittenKey(pair) = Lit(word))

(* The label of scheme://host/label?query, and the issuer it names.        *)
LabelOf(uri) == Unescape(Split(Cut(uri, "?")[1], "/")[4], FALSE)

Colons(label) == Cardinality({i \in 1 .. Len(label) : label[i] = ":"})

LabelIssuer(uri) ==
  IF Colons(LabelOf(uri)) = 0 THEN <<>> ELSE Split(LabelOf(uri), ":")[1]

IssuerDiffers(uri) ==
  \E i \in 1 .. Len(Written(uri, "issuer")) :
    LET value == Cut(Written(uri, "issuer")[i], "=")[2]
    IN UnescapeErr(value) \/ Unescape(value, FALSE) # LabelIssuer(uri)

UnknownKey(uri) ==
  \E i \in 1 .. Len(WrittenPairs(uri)) : WrittenKey(WrittenPairs(uri)[i]) \notin QueryKeys

MultiValued(uri) ==
  \E word \in {"secret", "issuer", "algorithm", "digits", "period"} :
    Len(Written(uri, word)) > 1

(* C27: ParseFromURI rejects a URI whose issuer parameter does not         *)
(* path-unescape to the issuer of the label, one with an unknown or a      *)
(* multi-valued query key, one without a secret and one whose label has    *)
(* more than one colon; a URI it accepts gets algorithm SHA1, digits 6 and *)
(* period 30 for the parameters it leaves out.                             *)
C27_ParseRejects ==
  (Returned /\ call.fn = "ParseFromURI") =>
    /\ (\/ IssuerDiffers(call.uri)
        \/ UnknownKey(call.uri)
        \/ MultiValued(call.uri)
        \/ Written(call.uri, "secret") = <<>>
        \/ Colons(LabelOf(call.uri)) > 1) => call.out.err
    /\ ~call.out.err =>
         /\ Written(call.uri, "algorithm") = <<>> => call.out.Algorithm = Lit("SHA1")
         /\ Written(call.uri, "digits") = <<>> => call.out.Digits = 6
         /\ Written(call.uri, "period") = <<>> => call.out.Period = 30

(* RFC 4226, 5.3: the 31 bits at the offset named by the low 4 bits of the *)
(* last byte of the HMAC sum.                                              *)
DT(h) ==
  LET o == h[Len(h)] % 16
  IN ((h[o + 1] % 128) * 16777216) + (h[o + 2] * 65536) + (h[o + 3] * 256) + h[o + 4]

(* The digits decimal characters of a number, zeros in front.              *)
Decimal(n, digits) ==
  [i \in 1 .. digits |-> DecimalDigits[((n \div Pow(10, digits - i)) % 10) + 1]]

(* The 8 bytes of a counter, the most significant first.                   *)
BigEndian8(counter) ==
  <<0, 0, 0, 0, counter \div 16777216, (counter \div 65536) % 256,
    (counter \div 256) % 256, counter % 256>>

GenerateSum == Sum(call.t.Algorithm, call.offset, call.window, call.high)

(* C28: Generate returns an error and no code when the period is not 30,   *)
(* the digits are not 6 or 8 or the secret is empty; a code it returns has *)
(* exactly `digits` decimal characters and is the dynamic truncation of    *)
(* HMAC(secret, 8-byte big-endian floor(unix / period)) modulo 10^digits,  *)
(* zeros in front.                                                         *)
C28_GenerateCode ==
  (Returned /\ call.fn = "Generate") =>
    /\ (\/ call.t.Period # 30
        \/ call.t.Digits \notin {6, 8}
        \/ call.t.Secret.len = 0) => (call.out.err /\ call.out.code = <<>>)
    /\ ~call.out.err =>
         /\ Len(call.out.code) = call.t.Digits
         /\ call.out.hash = call.t.Algorithm
         /\ call.out.key = call.t.Secret
         /\ call.out.written = BigEndian8(call.unix \div call.t.Period)
         /\ call.out.code = Decimal(DT(GenerateSum) % Pow(10, call.t.Digits), call.t.Digits)

(* Generate returned an 8-digit code that begins with a zero, at a Unix    *)
(* time of today's size, from a sum whose 32 bits at the offset have the   *)
(* highest bit set.                                                        *)
C28_Witness ==
  /\ Returned /\ call.fn = "Generate" /\ ~call.out.err
  /\ call.t.Digits = 8 /\ call.out.code[1] = "0"
  /\ call.unix > 1000000000
  /\ call.window[1] >= 128 /\ call.offset = 15

(* The heap entries of a bucket for a key, and a bucket at rest: no Get is *)
(* inside loadAndSet for it, its reaper is not inside reap, and it has not *)
(* been closed.                                                            *)
HeapEntries(b, k) == {i \in 1 .. Len(eq[b]) : eq[b][i].key = k}

AtRest(b) == InFlight(b) = {} /\ ~reaper[b].inReap /\ ~Closed(b) /\ ~crashed

(* C29: in every state of a bucket, and so in those where it is at rest,   *)
(* every ARC-resident key has exactly one heap entry, and its map entry    *)
(* points at that entry.                                                   *)
C29_OneEntryPerResidentKey ==
  \A k \in Keys :
    (AtRest(jump[k]) /\ Resident(k)) =>
      /\ Cardinality(HeapEntries(jump[k], k)) = 1
      /\ \A i \in HeapEntries(jump[k], k) : eqPtrMap[jump[k]][k] = eq[jump[k]][i].id

(* C30: every heap entry and every map entry of a bucket refers to a key   *)
(* resident in the bucket's ARC, and the heap and the map hold no more     *)
(* entries than the ARC has room for, size / shards.                       *)
C30_EntriesAreResident ==
  \A b \in Buckets :
    AtRest(b) =>
      /\ \A i \in 1 .. Len(eq[b]) : ARCHas(arc[b], eq[b][i].key)
      /\ \A k \in Keys : eqPtrMap[b][k] # 0 => ARCHas(arc[b], k)
      /\ Len(eq[b]) <= BucketCapacity
      /\ Cardinality({k \in Keys : eqPtrMap[b][k] # 0}) <= BucketCapacity

(* The deadline a resident key has now: that of the heap item its map      *)
(* entry points at, moved by the refreshes applied to it, or the one its   *)
(* load has computed when the load has not pushed its item yet.            *)
CurrentDeadline(k) == IF hist[k].loadDone THEN DeadlineOf(k) ELSE hist[k].loadDl

(* C31: a turn of reap removes a key from the ARC only when the key's      *)
(* current deadline, set by its latest load or applied refresh, is at or   *)
(* before now.                                                             *)
C31_ReapedOnlyWhenDue ==
  [][(ev'.kind = "reap") => \A k \in ev'.gone : CurrentDeadline(k) <= now]_vars

(* reap has returned in this step: the reaper of b has let go of eqLock    *)
(* and reset its ticker.                                                   *)
ReapReturned(b) ==
  task[b] = "ticking" /\ reaper'[b] # reaper[b] /\ ~reaper'[b].inReap

Items(q) == {q[i] : i \in 1 .. Len(q)}

Earliest(q) ==
  CHOOSE d \in {item.evictionTime : item \in Items(q)} :
    \A item \in Items(q) : d <= item.evictionTime

Largest(a, b) == IF a < b THEN b ELSE a

Smallest(a, b) == IF a < b THEN a ELSE b

(* C32: when reap returns, the next sleep is minTick if the heap is empty, *)
(* and otherwise earliest deadline - now + slack, clamped to [minTick,     *)
(* maxTick]; no entry it leaves is due, and the entry it popped last and   *)
(* found not yet due is in the heap again.                                 *)
C32_ReapSleepsUntilEarliest ==
  [][\A b \in Buckets :
       ReapReturned(b) =>
         IF eq'[b] = <<>> THEN reaper'[b].wake = now + MinTick
         ELSE /\ reaper'[b].wake =
                   now + Largest(MinTick, Smallest(MaxTick, Earliest(eq'[b]) - now + Slack))
              /\ \A item \in Items(eq'[b]) : item.evictionTime > now
              /\ Items(eq'[b]) = Items(eq[b])]_vars

(* reap has returned after at least one tick, leaving an entry whose       *)
(* deadline is further away than maxTick: the sleep is maxTick.            *)
C32_Witness ==
  \E b \in Buckets :
    /\ task[b] = "ticking" /\ ~reaper[b].inReap /\ now > 0
    /\ eq[b] # <<>> /\ Earliest(eq[b]) - now + Slack > MaxTick
    /\ reaper[b].wake = now + MaxTick

(* The sessions of the derivations that are between their OpenSession and  *)
(* their return.                                                           *)
DerivationSessions ==
  {kdfs[t].session :
     t \in {d \in Derivers : kdfs[d].pc \in {"login", "signInit", "sign", "logout", "closeSession"}}}

(* C33: a KDF32 or KDF64 call of the HSM pool that has returned, with a    *)
(* key or with any error, has closed the session it opened; while the pool *)
(* is in use the open sessions are the key session and the sessions of the *)
(* derivations still running, so after any derivations only the key        *)
(* session is open, until Close.                                           *)
C33_DerivationClosesItsSession ==
  /\ \A t \in Derivers : kdfs[t].pc = "returned" => kdfs[t].session \notin token.sessions
  /\ pool.pc = "ready" => token.sessions = {pool.keySession} \cup DerivationSessions

C33_Witness ==
  /\ pool.pc = "ready"
  /\ kdfs["d1"].pc = "returned" /\ kdfs["d1"].err = "Login" /\ kdfs["d1"].session # 0
  /\ kdfs["d2"].pc = "returned" /\ kdfs["d2"].err = "length" /\ kdfs["d2"].session # 0
  /\ token.sessions = {pool.keySession}

(* C34: derivations that run at once on the HSM pool do not interfere: no  *)
(* SignInit or Sign of a derivation fails because the token is not logged  *)
(* in, whatever the other derivations do with the login state that all     *)
(* sessions of the token share.                                            *)
C34_DerivationsDoNotInterfere ==
  \A t \in Derivers : kdfs[t].err # "CKR_USER_NOT_LOGGED_IN"

(* C35: the construction of the HSM pool fails with slot not found only    *)
(* when no enumerated slot carries the configured token label, whatever    *)
(* the id of a slot that carries it.                                       *)
C35_SlotFoundByLabel ==
  pool.err = "slot not found" =>
    \A i \in 1 .. Len(token.slots) : token.slots[i].label # ConfigLabel

(* The pool has been constructed: New has returned it.                     *)
NewReturnsPool == pool.pc # "ready" /\ pool'.pc = "ready"

(* C36: New generates a key exactly when the search by label finds no      *)
(* object; a key that exists is used by its handle and none is generated;  *)
(* when New returns the pool, one session is open, the key session, and    *)
(* the key handle is set.                                                  *)
C36_GeneratesIffAbsent ==
  [][/\ token'.generated # token.generated =>
          token.objects = 0 /\ token'.generated = 1 /\ pool'.key = token'.objects
     /\ NewReturnsPool =>
          /\ token'.generated = 1 <=> token.objects = 0
          /\ token.objects # 0 => token'.objects = token.objects /\ pool'.key = 1
          /\ token'.sessions = {pool'.keySession}
          /\ pool'.keySession # 0
          /\ pool'.key # 0
          /\ token'.login]_vars

C36_Witness ==
  /\ pool.pc = "ready" /\ token.generated = 1 /\ token.opened = 2
  /\ token.sessions = {2} /\ pool.keySession = 2 /\ pool.key = 1

(* New has returned an error.                                              *)
NewFailed == pool.pc = "failed"

(* C37: when New fails after the PKCS#11 context was initialized, every    *)
(* session it opened is closed and the context is finalized.               *)
C37_FailedNewCleansUp ==
  (NewFailed /\ pool.err \notin {"New", "Initialize"}) =>
    token.sessions = {} /\ token.ctx = "finalized"

(* The intermediate key of Protocol.deriveTOTPKey for a keyRing and the    *)
(* raw bytes of a selector.                                                *)
Intermediate(keyRing, rawID) == MAC512(KDF64(keyRingToBytes(keyRing)), rawID)

(* C38: the tag Protocol.MAC returns is the intermediate TOTP key of no    *)
(* keyRing and no selector that GenerateTOTP has returned.                 *)
C38_TagIsNoTOTPKey ==
  (res.op = "mac" /\ ~res.err) =>
    \A keyRing \in TOTPKeyRings, n \in 1 .. Len(totps) :
      Intermediate(keyRing, DecodeExpect(totps[n].id, TOTP).data)
        # DecodeExpect(res.tag, Tagged).data

(* C39: DV1.Encrypt leaves the caller's plaintext as it was: after the     *)
(* call the bytes of data are those before it, for every length and every  *)
(* spare capacity of the slice.                                            *)
C39_EncryptKeepsPlaintext ==
  (call.fn = "DV1.Encrypt" /\ Returned) => call.dataAfter = call.data

(* C40: a KDF32 or KDF64 call on the software pool after Close returns an  *)
(* error and no key; before Close, two calls of the same function with the *)
(* same keyRing return the same, and with a root of 64 bytes a key of the  *)
(* function's length that depends on the keyRing.                          *)
C40_SoftPoolKDF ==
  /\ \A c \in derived : ~c.open => c.err /\ c.key = Bytes(<<>>)
  /\ \A c, d \in derived :
       (c.open /\ d.open /\ c.fn = d.fn /\ c.keyRing = d.keyRing) => c = d
  /\ \A c, d \in derived :
       (c.open /\ d.open /\ ~c.err /\ ~d.err /\ (c.fn # d.fn \/ c.keyRing # d.keyRing))
         => c.key # d.key
  /\ \A c \in derived :
       (c.open /\ Len(rootBuf) = MacKeySize) =>
         ~c.err /\ c.key.len = (IF c.fn = "KDF32" THEN Mac256Size ELSE Mac512Size)

C40_Witness ==
  /\ Len(rootBuf) = MacKeySize
  /\ \E c, d \in derived :
       /\ c.fn = d.fn /\ c.keyRing = d.keyRing
       /\ c.open /\ ~c.err /\ ~d.open /\ d.err
  /\ Cardinality({c \in derived : c.open}) = 6

=============================================================================
